---- MODULE Spec2Model ----
(***************************************************************************)
(* kiosk-redis-janitor: the RedisJanitor of redis_janitor/janitors.py,     *)
(* its Redis store (lists and hashes), the Kubernetes pod listing it       *)
(* consults, and the consumers that share the store with it.               *)
(*                                                                         *)
(* Names (queue names, pod names, Redis list names) are sequences of       *)
(* tokens, so that str.split, str.startswith and the scan pattern are      *)
(* computed on the name and never assumed.  Time is an integer clock.      *)
(***************************************************************************)
EXTENDS Integers, Sequences, FiniteSets, TLC

VARIABLES now, cluster, lists, hashes, jan, env, caller, redis_client

vars == <<now, cluster, lists, hashes, jan, env, caller, redis_client>>

\* ------------------------------------------------------------------ bounds
MaxTicks == 1
MaxEnv == 1
MaxCalls == 2

\* ---------------------------------------------------------- Python values
None == "None"
NoTs == <<>>

Last(s) == s[Len(s)]

\* the element of a one-element set; The({e(x) : x \in {v}}) is e(v) with v
\* computed once
The(S) == CHOOSE x \in S : TRUE

Range(s) == {s[i] : i \in DOMAIN s}

\* str.split(sep) on a name: the pieces between the occurrences of sep
RECURSIVE Split(_, _)
Split(s, sep) ==
    IF s = <<>> THEN << <<>> >>
    ELSE LET rest == Split(Tail(s), sep)
         IN  IF Head(s) = sep
             THEN << <<>> >> \o rest
             ELSE << <<Head(s)>> \o Head(rest) >> \o Tail(rest)

\* str.startswith(p)
StartsWith(s, p) ==
    /\ Len(p) <= Len(s)
    /\ SubSeq(s, 1, Len(p)) = p

\* ------------------------------------------------------------ the universe
Pod == <<"pod">>
ZipPod == <<"zip-consumer", "-1">>
PodNames == {Pod, ZipPod}
PodOrder == <<Pod, ZipPod>>

Phases == {"Running", "Pending", "Evicted"}
NotFound == "NotFound"

Keys == {"k1", "k2"}

\* the janitor's `queue` argument and `queue_delimiter`
QUEUE == <<"q">>
QUEUE_DELIMITER == ","

\* str.lower() on a name
LowerToken(c) == IF c = "Q" THEN "q" ELSE c
Lower(s) == [i \in DOMAIN s |-> LowerToken(s[i])]

\* ------------------------------------------------- RedisJanitor.__init__
queues == Split(Lower(QUEUE), QUEUE_DELIMITER)

RECURSIVE ProcessingQueuesOf(_)
ProcessingQueuesOf(qs) ==
    IF qs = <<>> THEN <<>>
    ELSE << <<"processing-">> \o Head(qs),
            <<"processing-">> \o Head(qs) \o <<"-zip">> >>
         \o ProcessingQueuesOf(Tail(qs))

processing_queues == ProcessingQueuesOf(queues)

\* mutant of Match: the colon after the queue name is left out
Match_no_colon(q) == q \o <<"*">>

\* '{}:*'.format(q)
Match(q) == q \o <<":", "*">>

whitelisted_pods == << <<"zip-consumer">> >>

\* mutant of valid_pod_phases: the phase commented out in the source is let in
valid_pod_phases_pending == {"Running", "Pending"}

valid_pod_phases == {"Running"}

\* ------------------------------------------------ names used by consumers
\* a consumer takes work from its work queue and parks the key it holds in
\* `processing-<queue>:<pod name>`
WorkQueueOf(w) == IF w = ZipPod THEN <<"q", "-zip">> ELSE <<"q">>
EntryOf(w) == <<"processing-">> \o WorkQueueOf(w) \o <<":">> \o w

ListNames == {WorkQueueOf(w) : w \in PodNames} \cup {EntryOf(w) : w \in PodNames}

\* fixed enumeration order of the store's key space (the order SCAN walks it)
KeyOrder == <<EntryOf(Pod), EntryOf(ZipPod), WorkQueueOf(Pod), WorkQueueOf(ZipPod)>>

\* a job record that does not exist: HMGET answers None for every field
NoRecord == [status |-> None, updated_at |-> NoTs, updated_by |-> <<>>]

Statuses == {"new", "started", "done", "failed"}

\* ------------------------------------------------------- the Redis client
\* LREM name 1 value: drop the first occurrence, answer how many were dropped
RECURSIVE RemoveFirst(_, _)
RemoveFirst(s, v) ==
    IF s = <<>> THEN <<>>
    ELSE IF Head(s) = v THEN Tail(s)
    ELSE <<Head(s)>> \o RemoveFirst(Tail(s), v)

\* mutant of lrem: the answer is count whether or not the value was there
lrem_blind(ls, name, count, value) ==
    IF name \in DOMAIN ls /\ value \in Range(ls[name])
    THEN [lists |-> [ls EXCEPT ![name] = RemoveFirst(@, value)], res |-> count]
    ELSE [lists |-> ls, res |-> count]

lrem(ls, name, count, value) ==
    IF name \in DOMAIN ls /\ value \in Range(ls[name])
    THEN [lists |-> [ls EXCEPT ![name] = RemoveFirst(@, value)], res |-> count]
    ELSE [lists |-> ls, res |-> 0]

\* LPUSH name value: put value at the head
lpush(ls, name, value) == [ls EXCEPT ![name] = <<value>> \o @]

\* mutant of lrange: LRANGE name 0 0, the first key only
lrange_first(ls, name) ==
    IF name \in DOMAIN ls /\ ls[name] # <<>> THEN <<Head(ls[name])>> ELSE <<>>

\* LRANGE name 0 -1
lrange(ls, name) == IF name \in DOMAIN ls THEN ls[name] ELSE <<>>

\* HMGET key status updated_at updated_by
hmget(hs, key) == hs[key]

\* SCAN MATCH <prefix>*: the existing keys (an empty list does not exist)
\* whose name begins with the pattern up to its trailing wildcard
scan_iter(ls, match) ==
    LET prefix == SubSeq(match, 1, Len(match) - 1)
    IN  SelectSeq(KeyOrder, LAMBDA k : ls[k] # <<>> /\ StartsWith(k, prefix))

\* get_processing_keys run to its end on a store that stands still: for each
\* processing queue in turn, the keys its pattern finds
RECURSIVE get_processing_keys(_, _)
get_processing_keys(pqs, ls) ==
    IF pqs = <<>> THEN <<>>
    ELSE scan_iter(ls, Match(Head(pqs))) \o get_processing_keys(Tail(pqs), ls)

\* --------------------------------------------------------- the cluster API
\* response.items of list_pod_for_all_namespaces
Items(cl) ==
    LET all == [i \in DOMAIN PodOrder |->
                  [name |-> PodOrder[i], phase |-> cl[PodOrder[i]]]]
    IN  SelectSeq(all, LAMBDA it : it.phase # NotFound)

\* mutant of list_pod_for_all_namespaces: the failure of the API call is
\* not noticed
list_pod_for_all_namespaces_unaware(cl, api_ok) == Items(cl)

\* RedisJanitor.list_pod_for_all_namespaces: [] when the API call raises
list_pod_for_all_namespaces(cl, api_ok) == IF api_ok THEN Items(cl) ELSE <<>>

\* kube_client.delete_namespaced_pod(pod_name, namespace,
\* grace_period_seconds=0): the pod is gone and the cluster answers, or the
\* API call raises ApiException and there is no response
delete_namespaced_pod(cl, pod_name, namespace, api_ok) ==
    IF api_ok
    THEN [cluster |-> [w \in DOMAIN cl |-> IF w = pod_name THEN NotFound ELSE cl[w]],
          response |-> TRUE, raised |-> None]
    ELSE [cluster |-> cl, response |-> FALSE, raised |-> "ApiException"]

\* mutant of kill_pod: the ApiException is not caught
kill_pod_uncaught(self, cl, pod_name, namespace, api_ok) ==
    LET d == delete_namespaced_pod(cl, pod_name, namespace, api_ok)
    IN  [cluster |-> d.cluster, res |-> d.response, raised |-> d.raised]

\* RedisJanitor.kill_pod: the response, or False when the API call raised
kill_pod(self, cl, pod_name, namespace, api_ok) ==
    LET d == delete_namespaced_pod(cl, pod_name, namespace, api_ok)
    IN  IF d.raised = "ApiException"
        THEN [cluster |-> d.cluster, res |-> FALSE, raised |-> None]
        ELSE [cluster |-> d.cluster, res |-> d.response, raised |-> None]

\* {pod.metadata.name: pod.status.phase for pod in items}: a later item wins
DictOf(items) ==
    [n \in {items[i].name : i \in DOMAIN items} |->
        LET last == CHOOSE i \in DOMAIN items :
                        /\ items[i].name = n
                        /\ \A k \in DOMAIN items : items[k].name = n => k <= i
        IN  items[last].phase]

\* dict.get(name)
Get(d, name) == IF name \in DOMAIN d THEN d[name] ELSE None

EmptyDict == [n \in {} |-> None]

\* ------------------------------------------------- RedisJanitor, pure part
\* mutant of is_whitelisted: the name must be one of the prefixes
is_whitelisted_equal(self, pod_name) ==
    \E i \in DOMAIN self.whitelisted_pods : pod_name = self.whitelisted_pods[i]

\* any(pod_name.startswith(x) for x in self.whitelisted_pods)
is_whitelisted(self, pod_name) ==
    \E i \in DOMAIN self.whitelisted_pods :
        StartsWith(pod_name, self.whitelisted_pods[i])

\* mutant of remove_key_from_queue: the removal is answered but not done
remove_key_from_queue_keep(self, ls, redis_key) ==
    [lists |-> ls, res |-> lrem(ls, self.cleaning_queue, 1, redis_key).res]

remove_key_from_queue(self, ls, redis_key) ==
    lrem(ls, self.cleaning_queue, 1, redis_key)

SourceQueue(cleaning_queue) ==
    Last(Split(Head(Split(cleaning_queue, ":")), "processing-"))

\* mutants of repair_redis_key: the push is lost; the answer is always
\* truthy; the push does not wait for the removal
repair_redis_key_no_push(self, ls, redis_key) ==
    remove_key_from_queue(self, ls, redis_key)

repair_redis_key_always_true(self, ls, redis_key) ==
    LET rm == remove_key_from_queue(self, ls, redis_key)
    IN  IF rm.res # 0
        THEN [lists |-> lpush(rm.lists, SourceQueue(self.cleaning_queue), redis_key),
              res |-> 1]
        ELSE [lists |-> rm.lists, res |-> 1]

repair_redis_key_push_always(self, ls, redis_key) ==
    LET rm == remove_key_from_queue(self, ls, redis_key)
    IN  [lists |-> lpush(rm.lists, SourceQueue(self.cleaning_queue), redis_key),
         res |-> rm.res]

repair_redis_key(self, ls, redis_key) ==
    LET rm == remove_key_from_queue(self, ls, redis_key)
    IN  IF rm.res # 0
        THEN [lists |-> lpush(rm.lists, SourceQueue(self.cleaning_queue), redis_key),
              res |-> rm.res]
        ELSE [lists |-> rm.lists, res |-> rm.res]

_update_pods(self, items, t) ==
    [self EXCEPT !.pods = DictOf(items), !.pods_updated_at = <<t>>]

\* a value that is not a datetime.datetime, as `pods_updated_at = 1`
NotADatetime == <<"int", 1>>

\* isinstance(v, datetime.datetime) for a value v that is not None
IsDatetime(v) == Len(v) = 1

\* mutants of update_pods: an unset timestamp is taken for a fresh one; the
\* refresh comes already when the interval has just elapsed; a value that is
\* no timestamp is taken for an unset one; the sign of the interval is lost
update_pods_trust_unset(self, items, t) ==
    IF self.pods_updated_at = NoTs
    THEN [self |-> self, raised |-> None, queries |-> 0]
    ELSE IF ~IsDatetime(self.pods_updated_at)
    THEN [self |-> self, raised |-> "ValueError", queries |-> 0]
    ELSE IF t - self.pods_updated_at[1] > self.pod_refresh_interval
    THEN [self |-> _update_pods(self, items, t), raised |-> None, queries |-> 1]
    ELSE [self |-> self, raised |-> None, queries |-> 0]

update_pods_ge(self, items, t) ==
    IF self.pods_updated_at = NoTs
    THEN [self |-> _update_pods(self, items, t), raised |-> None, queries |-> 1]
    ELSE IF ~IsDatetime(self.pods_updated_at)
    THEN [self |-> self, raised |-> "ValueError", queries |-> 0]
    ELSE IF t - self.pods_updated_at[1] >= self.pod_refresh_interval
    THEN [self |-> _update_pods(self, items, t), raised |-> None, queries |-> 1]
    ELSE [self |-> self, raised |-> None, queries |-> 0]

update_pods_no_typecheck(self, items, t) ==
    IF self.pods_updated_at = NoTs \/ ~IsDatetime(self.pods_updated_at)
    THEN [self |-> _update_pods(self, items, t), raised |-> None, queries |-> 1]
    ELSE IF t - self.pods_updated_at[1] > self.pod_refresh_interval
    THEN [self |-> _update_pods(self, items, t), raised |-> None, queries |-> 1]
    ELSE [self |-> self, raised |-> None, queries |-> 0]

update_pods_abs(self, items, t) ==
    IF self.pods_updated_at = NoTs
    THEN [self |-> _update_pods(self, items, t), raised |-> None, queries |-> 1]
    ELSE IF ~IsDatetime(self.pods_updated_at)
    THEN [self |-> self, raised |-> "ValueError", queries |-> 0]
    ELSE IF t - self.pods_updated_at[1] >
              (IF self.pod_refresh_interval < 0 THEN -self.pod_refresh_interval
               ELSE self.pod_refresh_interval)
    THEN [self |-> _update_pods(self, items, t), raised |-> None, queries |-> 1]
    ELSE [self |-> self, raised |-> None, queries |-> 0]

\* mutant of update_pods: the snapshot is kept as long as the freshness guard
update_pods_3x(self, items, t) ==
    IF self.pods_updated_at = NoTs
    THEN [self |-> _update_pods(self, items, t), raised |-> None, queries |-> 1]
    ELSE IF ~IsDatetime(self.pods_updated_at)
    THEN [self |-> self, raised |-> "ValueError", queries |-> 0]
    ELSE IF t - self.pods_updated_at[1] > self.pod_refresh_interval * 3
    THEN [self |-> _update_pods(self, items, t), raised |-> None, queries |-> 1]
    ELSE [self |-> self, raised |-> None, queries |-> 0]

\* update_pods: the janitor after it, the exception it raised (None when it
\* returned) and the number of pod listings it asked the cluster for
update_pods(self, items, t) ==
    IF self.pods_updated_at = NoTs
    THEN [self |-> _update_pods(self, items, t), raised |-> None, queries |-> 1]
    ELSE IF ~IsDatetime(self.pods_updated_at)
    THEN [self |-> self, raised |-> "ValueError", queries |-> 0]
    ELSE IF t - self.pods_updated_at[1] > self.pod_refresh_interval
    THEN [self |-> _update_pods(self, items, t), raised |-> None, queries |-> 1]
    ELSE [self |-> self, raised |-> None, queries |-> 0]

\* mutant of is_valid_pod: any listed pod counts, whatever its phase
is_valid_pod_any_phase(self, pod_name, items, t) ==
    The({[self |-> u.self, raised |-> u.raised, queries |-> u.queries,
          res |-> u.raised = None /\ pod_name \in DOMAIN u.self.pods]
         : u \in {update_pods(self, items, t)}})

\* is_valid_pod: the janitor after update_pods, and the answer (no answer,
\* written FALSE, when update_pods raised)
is_valid_pod(self, pod_name, items, t) ==
    The({[self |-> u.self, raised |-> u.raised, queries |-> u.queries,
          res |-> u.raised = None /\ Get(u.self.pods, pod_name) \in valid_pod_phases]
         : u \in {update_pods(self, items, t)}})

\* mutants of _timestamp_to_age: a missing timestamp counts from the epoch;
\* every record is brand new
_timestamp_to_age_epoch(ts, t) == IF ts = NoTs THEN t ELSE t - ts[1]

_timestamp_to_age_zero(ts, t) == 0

_timestamp_to_age(ts, t) == IF ts = NoTs THEN 0 ELSE t - ts[1]

\* stale_time is <<>> (the default None) or <<v>>; None and 0 are falsy
is_stale_update_time(self, updated_time, stale_time, t) ==
    LET st == IF stale_time # <<>> /\ stale_time[1] # 0
              THEN stale_time[1] ELSE self.stale_time
    IN  IF updated_time = NoTs THEN FALSE
        ELSE IF st <= 0 THEN FALSE
        ELSE _timestamp_to_age(updated_time, t) >= st

\* a timestamp that is not a datetime and that dateutil.parser.parse cannot
\* read; parse raises ValueError for it
Unparseable == <<"str", "garbage">>

ParserError(ts) == ts # NoTs /\ Len(ts) # 1

\* mutant of PodNameOf: the first piece of the entry name, not the last
PodNameOf_first(cleaning_queue) == Head(Split(cleaning_queue, ":"))

PodNameOf(cleaning_queue) == Last(Split(cleaning_queue, ":"))

\* the answer of should_clean_key before it looks at the pods
TooFresh(self, updated_seconds) ==
    [self |-> self, res |-> FALSE, updated_seconds |-> updated_seconds,
     raised |-> None, queries |-> 0]

\* should_clean_key left by the ValueError of _timestamp_to_age
Unreadable(self) ==
    [self |-> self, res |-> FALSE, updated_seconds |-> 0,
     raised |-> "ValueError", queries |-> 0]

\* the answer of should_clean_key from what is_valid_pod gave
ByLiveness(v, updated_seconds) ==
    [self |-> v.self, res |-> v.raised = None /\ ~v.res,
     updated_seconds |-> updated_seconds,
     raised |-> v.raised, queries |-> v.queries]

\* mutants of should_clean_key: a strict freshness guard; whitelisted pods
\* always cleaned; nothing cleaned when stale_time is switched off
should_clean_key_lt(self, key, updated_ts, items, t) ==
    LET pod_name == PodNameOf(self.cleaning_queue)
        updated_seconds == _timestamp_to_age(updated_ts, t)
    IN  IF ParserError(updated_ts) THEN Unreadable(self)
        ELSE IF updated_seconds < self.pod_refresh_interval * 3
        THEN TooFresh(self, updated_seconds)
        ELSE The({ByLiveness(v, updated_seconds)
                  : v \in {is_valid_pod(self, pod_name, items, t)}})

should_clean_key_whitelist(self, key, updated_ts, items, t) ==
    LET pod_name == PodNameOf(self.cleaning_queue)
        updated_seconds == _timestamp_to_age(updated_ts, t)
    IN  IF ParserError(updated_ts) THEN Unreadable(self)
        ELSE IF updated_seconds <= self.pod_refresh_interval * 3
        THEN TooFresh(self, updated_seconds)
        ELSE IF is_whitelisted(self, pod_name)
        THEN [TooFresh(self, updated_seconds) EXCEPT !.res = TRUE]
        ELSE The({ByLiveness(v, updated_seconds)
                  : v \in {is_valid_pod(self, pod_name, items, t)}})

should_clean_key_stale_off(self, key, updated_ts, items, t) ==
    LET pod_name == PodNameOf(self.cleaning_queue)
        updated_seconds == _timestamp_to_age(updated_ts, t)
    IN  IF ParserError(updated_ts) THEN Unreadable(self)
        ELSE IF updated_seconds <= self.pod_refresh_interval * 3 \/ self.stale_time <= 0
        THEN TooFresh(self, updated_seconds)
        ELSE The({ByLiveness(v, updated_seconds)
                  : v \in {is_valid_pod(self, pod_name, items, t)}})

\* should_clean_key: the janitor after it, the answer (FALSE when is_valid_pod
\* raised), the age it computed, the exception and the cluster queries
should_clean_key(self, key, updated_ts, items, t) ==
    LET pod_name == PodNameOf(self.cleaning_queue)
        updated_seconds == _timestamp_to_age(updated_ts, t)
    IN  IF ParserError(updated_ts) THEN Unreadable(self)
        ELSE IF updated_seconds <= self.pod_refresh_interval * 3
        THEN TooFresh(self, updated_seconds)
        ELSE The({ByLiveness(v, updated_seconds)
                  : v \in {is_valid_pod(self, pod_name, items, t)}})

\* Python truthiness of the three HMGET answers
Truthy(v) == v # None /\ v # ""

\* mutant of AnyField: the check for an empty record is skipped
AnyField_always(hvals) == TRUE

AnyField(hvals) ==
    \/ Truthy(hvals.status)
    \/ hvals.updated_at # NoTs
    \/ hvals.updated_by # <<>>

\* mutant of FinishedStatuses: a failed job is not counted as through
FinishedStatuses_done_only == {"done"}

\* the statuses of a job that is through: {'done', 'failed'}
FinishedStatuses == {"done", "failed"}

\* mutant of clean_key: a finished job's key is dropped from the entry even
\* when should_clean_key said no
clean_key_drop_finished(self, ls, hs, key, items, t) ==
    LET hvals == hmget(hs, key)
        blank == [key |-> key, hvals |-> hvals, updated_seconds |-> 0,
                  should_clean |-> FALSE, is_removed |-> 0]
    IN  IF ~AnyField(hvals)
        THEN LET rm == remove_key_from_queue(self, ls, key)
             IN  [self |-> self, lists |-> rm.lists, ret |-> rm.res # 0,
                  locals |-> [blank EXCEPT !.is_removed = rm.res],
                  raised |-> None, queries |-> 0]
        ELSE The({
               LET seen == [blank EXCEPT !.updated_seconds = sc.updated_seconds,
                                         !.should_clean = sc.res]
               IN  IF sc.res \/ (sc.raised = None /\ hvals.status \in FinishedStatuses)
                   THEN IF hvals.status \in FinishedStatuses
                        THEN LET rm == remove_key_from_queue(sc.self, ls, key)
                             IN  [self |-> sc.self, lists |-> rm.lists,
                                  ret |-> sc.res /\ rm.res # 0,
                                  locals |-> [seen EXCEPT !.is_removed = rm.res],
                                  raised |-> sc.raised, queries |-> sc.queries]
                        ELSE LET rp == repair_redis_key(sc.self, ls, key)
                             IN  [self |-> sc.self, lists |-> rp.lists,
                                  ret |-> rp.res # 0,
                                  locals |-> [seen EXCEPT !.is_removed = rp.res],
                                  raised |-> sc.raised, queries |-> sc.queries]
                   ELSE [self |-> sc.self, lists |-> ls, ret |-> sc.res,
                         locals |-> seen,
                         raised |-> sc.raised, queries |-> sc.queries]
               : sc \in {should_clean_key(self, key, hvals.updated_at, items, t)}})

\* clean_key: the janitor and the store's lists after it, its answer, the
\* locals it computed on the way, the exception it let through (None when it
\* returned) and the cluster queries it caused
clean_key(self, ls, hs, key, items, t) ==
    LET hvals == hmget(hs, key)
        blank == [key |-> key, hvals |-> hvals, updated_seconds |-> 0,
                  should_clean |-> FALSE, is_removed |-> 0]
    IN  IF ~AnyField(hvals)
        THEN LET rm == remove_key_from_queue(self, ls, key)
             IN  [self |-> self, lists |-> rm.lists, ret |-> rm.res # 0,
                  locals |-> [blank EXCEPT !.is_removed = rm.res],
                  raised |-> None, queries |-> 0]
        ELSE The({
               LET seen == [blank EXCEPT !.updated_seconds = sc.updated_seconds,
                                         !.should_clean = sc.res]
               IN  IF sc.res
                   THEN IF hvals.status \in FinishedStatuses
                        THEN LET rm == remove_key_from_queue(sc.self, ls, key)
                             IN  [self |-> sc.self, lists |-> rm.lists,
                                  ret |-> rm.res # 0,
                                  locals |-> [seen EXCEPT !.is_removed = rm.res],
                                  raised |-> sc.raised, queries |-> sc.queries]
                        ELSE LET rp == repair_redis_key(sc.self, ls, key)
                             IN  [self |-> sc.self, lists |-> rp.lists,
                                  ret |-> rp.res # 0,
                                  locals |-> [seen EXCEPT !.is_removed = rp.res],
                                  raised |-> sc.raised, queries |-> sc.queries]
                   ELSE [self |-> sc.self, lists |-> ls, ret |-> sc.res,
                         locals |-> seen,
                         raised |-> sc.raised, queries |-> sc.queries]
               : sc \in {should_clean_key(self, key, hvals.updated_at, items, t)}})

\* ------------------------------------------------------------- the state
\* now      the clock
\* cluster  pod name -> phase, or NotFound
\* lists    Redis list name -> the keys it holds, head first
\* hashes   job key -> its record's status, updated_at, updated_by
\* jan      janitor id -> the RedisJanitor object and the frame of its clean()
\* env      how many steps the consumers and the cluster have taken
\* caller   what the code that calls the janitor has seen: the clean() calls
\*          that returned to the driver's loop, and for a method called
\*          directly, as the unit tests do, the call and its outcome
\* redis_client  the store client's connection: how many commands have failed
\*          with ConnectionError and how many will, and the command under way

NoCall ==
    [key |-> None, hvals |-> NoRecord, updated_seconds |-> 0,
     should_clean |-> FALSE, is_removed |-> 0]

\* the store client with nothing in its way: no command fails, none is under
\* way; result is <<>> or <<the answer of the last command>>
Connected ==
    [fail_count |-> 0, fail_tolerance |-> 0, op |-> None, args |-> <<>>,
     slept |-> 0, result |-> <<>>]

\* no call made yet; api_ok tells whether the cluster answers pod listings
NoCaller ==
    [op |-> None, arg |-> <<>>, api_ok |-> TRUE, raised |-> None, queries |-> 0,
     res |-> FALSE, calls |-> 0]

\* RedisJanitor(redis_client, queue, stale_time=.., pod_refresh_interval=..)
NewJanitor(stale_time, pod_refresh_interval) ==
    [stale_time |-> stale_time,
     pod_refresh_interval |-> pod_refresh_interval,
     pods |-> EmptyDict,
     pods_updated_at |-> NoTs,
     whitelisted_pods |-> whitelisted_pods,
     total_repairs |-> 0,
     cleaning_queue |-> <<>>,
     pc |-> "idle",
     cleaned |-> 0,
     qi |-> 1,
     scanned |-> <<>>,
     pending |-> <<>>,
     ck |-> NoCall,
     is_key_cleaned |-> FALSE]

\* the (stale_time, pod_refresh_interval) pairs a janitor is built with
Configs ==
    {[stale_time |-> 5, pod_refresh_interval |-> 1],
     [stale_time |-> -1, pod_refresh_interval |-> 0]}

\* the clock at the start: a record written at time 0 is then exactly as old
\* as the freshness guard of the longest refresh interval
StartTime ==
    3 * (CHOOSE p \in {c.pod_refresh_interval : c \in Configs} :
            \A c \in Configs : c.pod_refresh_interval <= p)

\* the records the first key may have at the start: none, one of each status
\* written at time 0, one never stamped, one written just now
InitRecords ==
    {NoRecord}
    \cup {[status |-> s, updated_at |-> <<0>>, updated_by |-> Pod] : s \in Statuses}
    \cup {[status |-> "started", updated_at |-> NoTs, updated_by |-> Pod],
          [status |-> "started", updated_at |-> <<StartTime>>, updated_by |-> Pod]}

\* the second key is there to make an entry hold two keys
InitRecords2 ==
    {[status |-> s, updated_at |-> <<0>>, updated_by |-> Pod] : s \in {"started", "done"}}

\* where a key may sit at the start: on a work queue or held by a consumer
InitPlaces == {WorkQueueOf(Pod), EntryOf(Pod), EntryOf(ZipPod)}
InitPlaces2 == {WorkQueueOf(Pod), EntryOf(Pod)}

InitClusters ==
    {cl \in [PodNames -> Phases \cup {NotFound}] :
        /\ cl[Pod] # "Pending"
        /\ cl[ZipPod] \in {"Running", NotFound}}

KeySeq(S) ==
    IF S = Keys THEN <<"k1", "k2">>
    ELSE IF S = {} THEN <<>>
    ELSE <<CHOOSE k \in S : TRUE>>

\* the store, the cluster, the clock and a janitor just built
InitWorld ==
    /\ now = StartTime
    /\ env = 0
    /\ cluster \in InitClusters
    /\ \E p1 \in InitPlaces, p2 \in InitPlaces2 :
          lists = [n \in ListNames |->
                     KeySeq({k \in Keys : (IF k = "k1" THEN p1 ELSE p2) = n})]
    /\ \E r1 \in InitRecords, r2 \in InitRecords2 :
          hashes = [k \in Keys |-> IF k = "k1" THEN r1 ELSE r2]
    /\ \E c \in Configs :
          jan = [j \in {1} |-> NewJanitor(c.stale_time, c.pod_refresh_interval)]

Init == InitWorld /\ caller = NoCaller /\ redis_client = Connected

\* ------------------------------------------------ consumers and cluster
Tick ==
    /\ now < StartTime + MaxTicks
    /\ now' = now + 1
    /\ UNCHANGED <<cluster, lists, hashes, jan, env>>

\* RPOPLPUSH <work queue> processing-<work queue>:<pod>
Claim(w) ==
    /\ env < MaxEnv
    /\ cluster[w] = "Running"
    /\ lists[WorkQueueOf(w)] # <<>>
    /\ LET src == lists[WorkQueueOf(w)]
           k == Last(src)
       IN  lists' = [lists EXCEPT ![WorkQueueOf(w)] = SubSeq(src, 1, Len(src) - 1),
                                  ![EntryOf(w)] = <<k>> \o @]
    /\ env' = env + 1
    /\ UNCHANGED <<now, cluster, hashes, jan>>

\* the consumer holding k writes its status, stamping updated_at and updated_by
Update(w, k, status) ==
    /\ env < MaxEnv
    /\ cluster[w] = "Running"
    /\ k \in Range(lists[EntryOf(w)])
    /\ hashes' = [hashes EXCEPT ![k] =
                    [status |-> status, updated_at |-> <<now>>, updated_by |-> w]]
    /\ env' = env + 1
    /\ UNCHANGED <<now, cluster, lists, jan>>

\* LREM processing-<work queue>:<pod> 1 k, the consumer is through with k
Release(w, k) ==
    /\ env < MaxEnv
    /\ cluster[w] = "Running"
    /\ k \in Range(lists[EntryOf(w)])
    /\ lists' = lrem(lists, EntryOf(w), 1, k).lists
    /\ env' = env + 1
    /\ UNCHANGED <<now, cluster, hashes, jan>>

\* the record of a finished job expires
Expire(k) ==
    /\ env < MaxEnv
    /\ hashes[k].status \in {"done", "failed"}
    /\ hashes' = [hashes EXCEPT ![k] = NoRecord]
    /\ env' = env + 1
    /\ UNCHANGED <<now, cluster, lists, jan>>

\* a pod is created (Pending), starts (Running), is evicted, or is deleted
PodLifecycle ==
    {<<NotFound, "Pending">>, <<"Pending", "Running">>, <<"Running", "Evicted">>,
     <<"Running", NotFound>>, <<"Evicted", NotFound>>, <<"Pending", NotFound>>}

SetPhase(w, phase) ==
    /\ env < MaxEnv
    /\ <<cluster[w], phase>> \in PodLifecycle
    /\ cluster' = [cluster EXCEPT ![w] = phase]
    /\ env' = env + 1
    /\ UNCHANGED <<now, lists, hashes, jan>>

\* ------------------------------------------------- RedisJanitor.clean()
\* cleaned = 0, and the generator of get_processing_keys is created
CleanStart(j) ==
    /\ jan[j].pc = "idle"
    /\ jan' = [jan EXCEPT ![j] = [@ EXCEPT !.pc = "scan", !.cleaned = 0, !.qi = 1,
                                           !.scanned = <<>>, !.pending = <<>>]]
    /\ UNCHANGED <<now, cluster, lists, hashes, env>>

\* get_processing_keys: the scan of the next processing queue's pattern
Scan(j) ==
    /\ jan[j].pc = "scan"
    /\ jan[j].scanned = <<>>
    /\ jan[j].qi <= Len(processing_queues)
    /\ jan' = [jan EXCEPT ![j] =
                 [@ EXCEPT !.scanned = scan_iter(lists,
                                                 Match(processing_queues[jan[j].qi])),
                           !.qi = @ + 1]]
    /\ UNCHANGED <<now, cluster, lists, hashes, env>>

\* the next key of the generator: cleaning_queue = q, and LRANGE q 0 -1
LRange(j) ==
    /\ jan[j].pc = "scan"
    /\ jan[j].scanned # <<>>
    /\ LET q == Head(jan[j].scanned)
           keys == lrange(lists, q)
       IN  jan' = [jan EXCEPT ![j] =
                     [@ EXCEPT !.cleaning_queue = q, !.scanned = Tail(@),
                               !.pending = keys,
                               !.pc = IF keys = <<>> THEN "scan" ELSE "keys"]]
    /\ UNCHANGED <<now, cluster, lists, hashes, env>>

\* int(is_key_cleaned)
int(b) == IF b THEN 1 ELSE 0

\* mutant of CleanKeyApi: a key that was cleaned has its record's status set
\* back to `new`
CleanKeyApi_restamp(j, api_ok) ==
    /\ jan[j].pc = "keys"
    /\ \E r \in {clean_key(jan[j], lists, hashes, Head(jan[j].pending),
                            list_pod_for_all_namespaces(cluster, api_ok), now)} :
          /\ lists' = r.lists
          /\ hashes' = IF r.raised = None /\ r.ret
                       THEN [hashes EXCEPT ![Head(jan[j].pending)] =
                                [@ EXCEPT !.status = "new"]]
                       ELSE hashes
          /\ jan' = [jan EXCEPT ![j] =
                       IF r.raised # None
                       THEN [r.self EXCEPT !.ck = r.locals, !.pc = r.raised]
                       ELSE [r.self EXCEPT !.ck = r.locals,
                                           !.is_key_cleaned = r.ret,
                                           !.cleaned = @ + int(r.ret),
                                           !.pending = Tail(@),
                                           !.pc = IF Tail(jan[j].pending) = <<>>
                                                  THEN "scan" ELSE "keys"]]
    /\ UNCHANGED <<now, cluster, env>>

\* is_key_cleaned = self.clean_key(key); cleaned = cleaned + int(is_key_cleaned)
\* with the cluster answering the pod listing (api_ok) or failing it; an
\* exception leaves clean() where it is and goes up to the caller
CleanKeyApi(j, api_ok) ==
    /\ jan[j].pc = "keys"
    /\ \E r \in {clean_key(jan[j], lists, hashes, Head(jan[j].pending),
                            list_pod_for_all_namespaces(cluster, api_ok), now)} :
          /\ lists' = r.lists
          /\ jan' = [jan EXCEPT ![j] =
                       IF r.raised # None
                       THEN [r.self EXCEPT !.ck = r.locals, !.pc = r.raised]
                       ELSE [r.self EXCEPT !.ck = r.locals,
                                           !.is_key_cleaned = r.ret,
                                           !.cleaned = @ + int(r.ret),
                                           !.pending = Tail(@),
                                           !.pc = IF Tail(jan[j].pending) = <<>>
                                                  THEN "scan" ELSE "keys"]]
    /\ UNCHANGED <<now, cluster, hashes, env>>

CleanKey(j) == \E api_ok \in BOOLEAN : CleanKeyApi(j, api_ok)

\* mutant of AddRepairs: the sweeps that repaired are counted, not the keys
AddRepairs_sweeps(total_repairs, cleaned) ==
    IF cleaned # 0 THEN total_repairs + 1 ELSE total_repairs

\* if cleaned: self.total_repairs += cleaned
AddRepairs(total_repairs, cleaned) ==
    IF cleaned # 0 THEN total_repairs + cleaned ELSE total_repairs

\* the generator is exhausted: the summary, and the reset `to like new`
Finish(j) ==
    /\ jan[j].pc = "scan"
    /\ jan[j].scanned = <<>>
    /\ jan[j].qi > Len(processing_queues)
    /\ jan' = [jan EXCEPT ![j] =
                 [@ EXCEPT !.total_repairs = AddRepairs(@, jan[j].cleaned),
                           !.cleaning_queue = <<>>,
                           !.pods = EmptyDict,
                           !.pods_updated_at = NoTs,
                           !.ck = NoCall,
                           !.is_key_cleaned = FALSE,
                           !.pc = "idle"]]
    /\ UNCHANGED <<now, cluster, lists, hashes, env>>

\* the janitor sweeping again and again next to the consumers and the
\* cluster; nobody calls its methods from outside
Next ==
    \/ Tick /\ UNCHANGED <<caller, redis_client>>
    \/ \E w \in PodNames : Claim(w) /\ UNCHANGED <<caller, redis_client>>
    \/ \E w \in PodNames, k \in Keys, s \in {"started", "done"} :
          Update(w, k, s) /\ UNCHANGED <<caller, redis_client>>
    \/ \E w \in PodNames, k \in Keys : Release(w, k) /\ UNCHANGED <<caller, redis_client>>
    \/ \E k \in Keys : Expire(k) /\ UNCHANGED <<caller, redis_client>>
    \/ \E w \in PodNames, ph \in Phases \cup {NotFound} :
          SetPhase(w, ph) /\ UNCHANGED <<caller, redis_client>>
    \/ \E j \in DOMAIN jan : CleanStart(j) /\ UNCHANGED <<caller, redis_client>>
    \/ \E j \in DOMAIN jan : Scan(j) /\ UNCHANGED <<caller, redis_client>>
    \/ \E j \in DOMAIN jan : LRange(j) /\ UNCHANGED <<caller, redis_client>>
    \/ \E j \in DOMAIN jan : CleanKey(j) /\ UNCHANGED <<caller, redis_client>>
    \/ \E j \in DOMAIN jan : Finish(j) /\ UNCHANGED <<caller, redis_client>>

Spec == Init /\ [][Next]_vars

\* ------------------------------------------------- the sweeps, kept going
\* the driver's loop, `while True: janitor.clean(); time.sleep(INTERVAL)`,
\* takes the janitor's next step again and again, and the clock goes on
JanitorStep(j) ==
    (CleanStart(j) \/ Scan(j) \/ LRange(j) \/ CleanKey(j) \/ Finish(j))
    /\ UNCHANGED <<caller, redis_client>>

\* some of the states of Init: the second key waits on the work queue, the
\* first is unfinished or done, the zip consumer's pod is gone
LiveRecords ==
    {[status |-> "started", updated_at |-> <<0>>, updated_by |-> Pod],
     [status |-> "done", updated_at |-> <<0>>, updated_by |-> Pod]}

InitLive ==
    /\ now = StartTime
    /\ env = 0
    /\ caller = NoCaller
    /\ redis_client = Connected
    /\ cluster \in {cl \in InitClusters :
                       cl[ZipPod] = NotFound /\ cl[Pod] \in {"Running", NotFound}}
    /\ \E p1 \in InitPlaces :
          lists = [n \in ListNames |->
                     KeySeq({k \in Keys :
                               (IF k = "k1" THEN p1 ELSE WorkQueueOf(Pod)) = n})]
    /\ \E r1 \in LiveRecords :
          hashes = [k \in Keys |->
                      IF k = "k1" THEN r1
                      ELSE [status |-> "started", updated_at |-> <<0>>,
                            updated_by |-> Pod]]
    /\ \E c \in Configs :
          jan = [j \in {1} |-> NewJanitor(c.stale_time, c.pod_refresh_interval)]

SpecLive ==
    /\ InitLive
    /\ [][Next]_vars
    /\ WF_vars(Tick /\ UNCHANGED <<caller, redis_client>>)
    /\ \A j \in {1} : WF_vars(JanitorStep(j))

\* ------------------------------------- clean() called again, nothing else
\* janitor.clean() called MaxCalls times in a row: no consumer acts, the
\* cluster does not change (it answers every pod listing, or none) and from
\* the first call on the clock stands still
InitAgain ==
    /\ InitWorld
    /\ redis_client = Connected
    /\ \E up \in BOOLEAN : caller = [NoCaller EXCEPT !.api_ok = up]

CallClean(j) ==
    /\ caller.calls < MaxCalls
    /\ CleanStart(j)
    /\ caller' = [caller EXCEPT !.op = "clean"]
    /\ UNCHANGED redis_client

ReturnClean(j) ==
    /\ Finish(j)
    /\ caller' = [caller EXCEPT !.calls = @ + 1]
    /\ UNCHANGED redis_client

NextAgain ==
    \/ caller.op = None /\ Tick /\ UNCHANGED <<caller, redis_client>>
    \/ \E j \in DOMAIN jan : CallClean(j)
    \/ \E j \in DOMAIN jan : Scan(j) /\ UNCHANGED <<caller, redis_client>>
    \/ \E j \in DOMAIN jan : LRange(j) /\ UNCHANGED <<caller, redis_client>>
    \/ \E j \in DOMAIN jan : CleanKeyApi(j, caller.api_ok) /\ UNCHANGED <<caller, redis_client>>
    \/ \E j \in DOMAIN jan : ReturnClean(j)

SpecAgain == InitAgain /\ [][NextAgain]_vars

\* ---------------------------------------------- methods called directly
\* the refresh intervals a janitor under test is built with
TestIntervals == {-1, 0, 1}

\* the key the calls are made on, the records it may have and the entries
\* that may hold it
TestKeys == {"k1"}

TestRecords ==
    {NoRecord,
     [status |-> "started", updated_at |-> NoTs, updated_by |-> Pod],
     [status |-> "started", updated_at |-> <<0>>, updated_by |-> Pod],
     [status |-> "done", updated_at |-> <<0>>, updated_by |-> Pod]}

TestPlaces == {EntryOf(w) : w \in PodNames}

\* the pods the cluster under test may list: the worker in any phase or
\* missing, the zip consumer running or missing
TestClusters ==
    {cl \in [PodNames -> Phases \cup {NotFound}] :
        cl[ZipPod] \in {"Running", NotFound}}

\* janitor = self.get_client(pod_refresh_interval=..) with cleaning_queue set
\* by hand; it has not listed the pods yet, or did so two seconds ago when
\* the cluster gave no answer
InitCalls ==
    /\ now = StartTime
    /\ env = 0
    /\ caller = NoCaller
    /\ redis_client = Connected
    /\ cluster \in TestClusters
    /\ \E p1 \in TestPlaces :
          lists = [n \in ListNames |->
                     KeySeq({k \in Keys :
                               (IF k \in TestKeys THEN p1 ELSE WorkQueueOf(Pod)) = n})]
    /\ \E r1 \in TestRecords :
          hashes = [k \in Keys |->
                      IF k \in TestKeys THEN r1
                      ELSE [status |-> "started", updated_at |-> <<0>>,
                            updated_by |-> Pod]]
    /\ \E pri \in TestIntervals, w \in PodNames, u \in {NoTs, <<StartTime - 2>>} :
          jan = [j \in {1} |->
                   [NewJanitor(5, pri) EXCEPT !.cleaning_queue = EntryOf(w),
                                              !.pods_updated_at = u]]

\* what the caller has in hand when the call is over
Called(op, arg, api_ok, r, res) ==
    [op |-> op, arg |-> arg, api_ok |-> api_ok, raised |-> r.raised,
     queries |-> r.queries, res |-> res, calls |-> caller.calls + 1]

\* janitor.pods_updated_at = 1
Overwrite(j) ==
    /\ jan[j].pods_updated_at # NotADatetime
    /\ jan' = [jan EXCEPT ![j] = [@ EXCEPT !.pods_updated_at = NotADatetime]]
    /\ UNCHANGED <<now, cluster, lists, hashes, env, caller, redis_client>>

\* janitor.update_pods()
CallUpdatePods(j) ==
    /\ caller.calls < MaxCalls
    /\ \E api_ok \in BOOLEAN :
          LET r == update_pods(jan[j],
                               list_pod_for_all_namespaces(cluster, api_ok), now)
          IN  /\ jan' = [jan EXCEPT ![j] = r.self]
              /\ caller' = Called("update_pods", <<>>, api_ok, r, FALSE)
    /\ UNCHANGED <<now, cluster, lists, hashes, env, redis_client>>

\* janitor.is_valid_pod(w)
CallIsValidPod(j, w) ==
    /\ caller.calls < MaxCalls
    /\ \E api_ok \in BOOLEAN :
          LET r == is_valid_pod(jan[j], w,
                                list_pod_for_all_namespaces(cluster, api_ok), now)
          IN  /\ jan' = [jan EXCEPT ![j] = r.self]
              /\ caller' = Called("is_valid_pod", w, api_ok, r, r.res)
    /\ UNCHANGED <<now, cluster, lists, hashes, env, redis_client>>

\* janitor.should_clean_key(k, updated_at of k's record)
CallShouldCleanKey(j, k) ==
    /\ caller.calls < MaxCalls
    /\ \E api_ok \in BOOLEAN :
          LET r == should_clean_key(jan[j], k, hmget(hashes, k).updated_at,
                                    list_pod_for_all_namespaces(cluster, api_ok), now)
          IN  /\ jan' = [jan EXCEPT ![j] = r.self]
              /\ caller' = Called("should_clean_key", <<k>>, api_ok, r, r.res)
    /\ UNCHANGED <<now, cluster, lists, hashes, env, redis_client>>

\* janitor.clean_key(k)
CallCleanKey(j, k) ==
    /\ caller.calls < MaxCalls
    /\ \E api_ok \in BOOLEAN :
          LET r == clean_key(jan[j], lists, hashes, k,
                             list_pod_for_all_namespaces(cluster, api_ok), now)
          IN  /\ jan' = [jan EXCEPT ![j] = r.self]
              /\ lists' = r.lists
              /\ caller' = Called("clean_key", <<k>>, api_ok, r, r.ret)
    /\ UNCHANGED <<now, cluster, hashes, env, redis_client>>

NextCalls ==
    \/ Tick /\ UNCHANGED <<caller, redis_client>>
    \/ \E j \in DOMAIN jan : Overwrite(j)
    \/ \E j \in DOMAIN jan : CallUpdatePods(j)
    \/ \E j \in DOMAIN jan, w \in PodNames : CallIsValidPod(j, w)
    \/ \E j \in DOMAIN jan, k \in TestKeys : CallShouldCleanKey(j, k)
    \/ \E j \in DOMAIN jan, k \in TestKeys : CallCleanKey(j, k)

SpecCalls == InitCalls /\ [][NextCalls]_vars

\* ------------------------------------ the store client and its retries
\* how many commands in a row the store under test may fail
MaxFails == 2

\* the seconds the client waits before it tries a failed command again
backoff == 3

\* HGET key field
hget(hs, key, field) == hs[key][field]

\* HGETALL key
hgetall(hs, key) == hs[key]

\* HSET key status value: the record after it, and how many fields were new
hset(hs, key, value) ==
    [hashes |-> [hs EXCEPT ![key].status = value],
     res |-> int(hs[key].status = None)]

\* TYPE key, for the key of a job record
type(hs, key) == IF AnyField(hs[key]) THEN "hash" ELSE "none"

\* the commands the client is asked for
StoreOps == {"hget", "hgetall", "hset", "type", "scan_iter"}

\* the command reaches the store: its answer, and the records after it
Command(op, args, ls, hs) ==
    CASE op = "hget" -> [result |-> hget(hs, args[1], args[2]), hashes |-> hs]
      [] op = "hgetall" -> [result |-> hgetall(hs, args[1]), hashes |-> hs]
      [] op = "hset" -> [result |-> hset(hs, args[1], args[3]).res,
                         hashes |-> hset(hs, args[1], args[3]).hashes]
      [] op = "type" -> [result |-> type(hs, args[1]), hashes |-> hs]
      [] op = "scan_iter" -> [result |-> scan_iter(ls, args[1]), hashes |-> hs]

\* the store of the tests: a command fails with ConnectionError as long as
\* fail_count < fail_tolerance, and every failure is counted
Fails(rc) == rc.fail_count < rc.fail_tolerance
Failed(rc) == [rc EXCEPT !.fail_count = @ + 1]

\* mutant of on_connection_error: the error goes up to the caller
on_connection_error_raise(rc) ==
    [client |-> [rc EXCEPT !.op = None], raised |-> "ConnectionError"]

\* the client on a ConnectionError: it logs, sleeps for the backoff and goes
\* round again; nothing is raised
on_connection_error(rc) ==
    [client |-> [rc EXCEPT !.slept = @ + backoff], raised |-> None]

\* the reconciler asks the client for a command
StoreCall(op, args) ==
    /\ caller.calls < MaxCalls
    /\ redis_client.op = None
    /\ redis_client' = [redis_client EXCEPT !.op = op, !.args = args,
                                            !.slept = 0, !.result = <<>>]
    /\ UNCHANGED <<now, cluster, lists, hashes, jan, env, caller>>

\* an attempt that the store fails
AttemptFails ==
    /\ redis_client.op # None
    /\ Fails(redis_client)
    /\ LET r == on_connection_error(Failed(redis_client))
       IN  /\ redis_client' = r.client
           /\ caller' = IF r.raised = None THEN caller
                        ELSE [caller EXCEPT !.op = redis_client.op,
                                            !.arg = redis_client.args,
                                            !.raised = r.raised,
                                            !.calls = @ + 1]
    /\ UNCHANGED <<now, cluster, lists, hashes, jan, env>>

\* an attempt that the store answers: the answer is returned to the caller
AttemptReturns ==
    /\ redis_client.op # None
    /\ ~Fails(redis_client)
    /\ LET c == Command(redis_client.op, redis_client.args, lists, hashes)
       IN  /\ redis_client' = [redis_client EXCEPT !.op = None,
                                                   !.result = <<c.result>>]
           /\ hashes' = c.hashes
    /\ caller' = [caller EXCEPT !.op = redis_client.op, !.arg = redis_client.args,
                                !.raised = None, !.calls = @ + 1]
    /\ UNCHANGED <<now, cluster, lists, jan, env>>

RecordFields == {"status", "updated_at", "updated_by"}

\* the store of one job held by a consumer, and a connection that fails the
\* first fail_tolerance commands
InitRetry ==
    /\ now = StartTime
    /\ env = 0
    /\ caller = NoCaller
    /\ cluster = [w \in PodNames |-> "Running"]
    /\ \E p1 \in InitPlaces :
          lists = [n \in ListNames |->
                     KeySeq({k \in Keys :
                               (IF k \in TestKeys THEN p1 ELSE WorkQueueOf(Pod)) = n})]
    /\ \E r1 \in TestRecords :
          hashes = [k \in Keys |->
                      IF k \in TestKeys THEN r1
                      ELSE [status |-> "started", updated_at |-> <<0>>,
                            updated_by |-> Pod]]
    /\ jan = [j \in {1} |-> NewJanitor(5, 1)]
    /\ \E n \in 0..MaxFails :
          redis_client = [Connected EXCEPT !.fail_tolerance = n]

NextRetry ==
    \/ \E k \in TestKeys, f \in RecordFields : StoreCall("hget", <<k, f>>)
    \/ \E k \in TestKeys : StoreCall("hgetall", <<k>>)
    \/ \E k \in TestKeys : StoreCall("hset", <<k, "status", "new">>)
    \/ \E k \in TestKeys : StoreCall("type", <<k>>)
    \/ \E i \in DOMAIN processing_queues :
          StoreCall("scan_iter", <<Match(processing_queues[i])>>)
    \/ AttemptFails
    \/ AttemptReturns

SpecRetry == InitRetry /\ [][NextRetry]_vars

\* ------------------------------------- helpers called on their own
\* the `queue` arguments a janitor under test is built with
TestQueues ==
    {<<"q">>, <<"Q">>, <<"r">>, <<"q", ",", "r">>, <<"q", ",", "q", "-zip">>}

\* the janitors under test: stale_time switched off, zero or set, and the
\* whitelist of __init__ or the one the test puts in
TestStaleTimes == {-1, 0, 2}

TestWhitelists == {whitelisted_pods, << <<"pod1">>, <<"pod2">> >>}

\* any of the store's lists may exist, the clock is at its start, and no
\* call has been made
InitPure ==
    /\ now = StartTime
    /\ env = 0
    /\ caller = [NoCaller EXCEPT !.res = <<>>]
    /\ redis_client = Connected
    /\ cluster \in {cl \in TestClusters : cl[ZipPod] = "Running"}
    /\ lists \in [ListNames -> {<<>>, <<"k1">>}]
    /\ hashes = [k \in Keys |->
                   [status |-> "started", updated_at |-> <<0>>, updated_by |-> Pod]]
    /\ \E st \in TestStaleTimes, wl \in TestWhitelists :
          jan = [j \in {1} |-> [NewJanitor(st, 1) EXCEPT !.whitelisted_pods = wl]]

\* a helper that neither raises nor asks the cluster has returned; what it
\* returned is kept as <<res>>, and <<>> stands for no call yet
Returned(op, arg, res) ==
    Called(op, arg, TRUE, [raised |-> None, queries |-> 0], <<res>>)

\* janitor = self.get_client(queue=queue)
\* [x for x in janitor.get_processing_keys()]
CallGetProcessingKeys(queue) ==
    /\ caller.op = None
    /\ caller' = Returned("get_processing_keys", queue,
                          get_processing_keys(
                              ProcessingQueuesOf(Split(Lower(queue), QUEUE_DELIMITER)),
                              lists))
    /\ UNCHANGED <<now, cluster, lists, hashes, jan, env, redis_client>>

\* janitor.kill_pod(pod_name, 'ns') with a cluster that answers, or with
\* DummyKubernetes(fail=True)
CallKillPod(j, pod_name, api_ok) ==
    /\ caller.op = None
    /\ \E r \in {kill_pod(jan[j], cluster, pod_name, "ns", api_ok)} :
          /\ cluster' = r.cluster
          /\ caller' = Called("kill_pod", pod_name, api_ok,
                              [raised |-> r.raised, queries |-> 1], <<r.res>>)
    /\ UNCHANGED <<now, lists, hashes, jan, env, redis_client>>

\* the pod names is_whitelisted is asked about
TestPodNames ==
    {<<"pod1", "-123", "-456">>, <<"pod2", "-123", "-456">>,
     <<"pod3", "-123", "-456">>, <<"pod1">>, <<"my-", "pod1">>, Pod, ZipPod}

\* janitor.is_whitelisted(pod_name)
CallIsWhitelisted(j, pod_name) ==
    /\ caller.op = None
    /\ caller' = Returned("is_whitelisted", pod_name,
                          is_whitelisted(jan[j], pod_name))
    /\ UNCHANGED <<now, cluster, lists, hashes, jan, env, redis_client>>

\* the arguments is_stale_update_time is called with: no timestamp, an old
\* and a new one; no stale_time, or one that is negative, zero or positive
TestUpdatedTimes == {NoTs, <<0>>, <<StartTime>>}

TestStaleArgs == {<<>>, <<-1>>, <<0>>, <<1>>, <<4>>}

\* janitor.is_stale_update_time(updated_time, stale_time)
CallIsStaleUpdateTime(j, updated_time, stale_time) ==
    /\ caller.op = None
    /\ caller' = Returned("is_stale_update_time", <<updated_time, stale_time>>,
                          is_stale_update_time(jan[j], updated_time, stale_time, now))
    /\ UNCHANGED <<now, cluster, lists, hashes, jan, env, redis_client>>

NextPure ==
    \/ Tick /\ UNCHANGED <<caller, redis_client>>
    \/ \E queue \in TestQueues : CallGetProcessingKeys(queue)
    \/ \E j \in DOMAIN jan, w \in PodNames, api_ok \in BOOLEAN :
          CallKillPod(j, w, api_ok)
    \/ \E j \in DOMAIN jan, w \in TestPodNames : CallIsWhitelisted(j, w)
    \/ \E j \in DOMAIN jan, ut \in TestUpdatedTimes, st \in TestStaleArgs :
          CallIsStaleUpdateTime(j, ut, st)

SpecPure == InitPure /\ [][NextPure]_vars

\* ------------------------------------------------ clean-redis.py __main__
\* INTERVAL, STALE_TIME and the refresh interval RedisJanitor defaults to
INTERVAL == 20
STALE_TIME == 600
pod_refresh_interval == 5

\* the driver before its first sweep: op is None at the top of the loop,
\* "clean" inside janitor.clean(), "sleep" inside time.sleep and "exit" after
\* sys.exit; critical counts the lines logged at CRITICAL, exit is <<>> or
\* <<the exit status>>
Looping ==
    [op |-> None, raised |-> None, calls |-> 0, critical |-> 0, exit |-> <<>>]

\* mutant of on_exception: the error is logged and the loop goes on
on_exception_continue(driver, err) ==
    [driver EXCEPT !.op = None, !.raised = err, !.critical = @ + 2]

\* except Exception as err: two critical lines, sys.exit(1)
on_exception(driver, err) ==
    [driver EXCEPT !.op = "exit", !.raised = err, !.critical = @ + 2,
                   !.exit = <<1>>]

\* a consumer stamps a record with something that is not a timestamp
Scribble(k) ==
    /\ env < MaxEnv
    /\ hashes[k].updated_at # Unparseable
    /\ hashes' = [hashes EXCEPT ![k] = [@ EXCEPT !.updated_at = Unparseable]]
    /\ env' = env + 1
    /\ UNCHANGED <<now, cluster, lists, jan>>

\* janitor.clean()
DriverClean(j) == caller.op = None /\ CallClean(j)

\* clean() returned: time.sleep(INTERVAL) begins
DriverSleep(j) ==
    /\ caller.op = "clean"
    /\ Finish(j)
    /\ caller' = [caller EXCEPT !.op = "sleep", !.calls = @ + 1]
    /\ UNCHANGED redis_client

\* time.sleep(INTERVAL) is over: back to the top of the loop
DriverWake ==
    /\ caller.op = "sleep"
    /\ now' = now + INTERVAL
    /\ caller' = [caller EXCEPT !.op = None]
    /\ UNCHANGED <<cluster, lists, hashes, jan, env, redis_client>>

\* where clean() and clean_key can be; any other pc names the exception
\* that has left clean()
Positions == {"idle", "scan", "keys", "read", "remove", "repair", "push"}

\* an exception came out of clean(): its frame is gone, the handler runs
DriverExcept(j) ==
    /\ caller.op = "clean"
    /\ jan[j].pc \notin Positions
    /\ jan' = [jan EXCEPT ![j] = [@ EXCEPT !.pc = "idle"]]
    /\ caller' = on_exception(caller, jan[j].pc)
    /\ UNCHANGED <<now, cluster, lists, hashes, env, redis_client>>

\* the deployed process: the janitor built as clean-redis.py builds it
InitDriver ==
    /\ now = StartTime
    /\ env = 0
    /\ cluster \in InitClusters
    /\ \E p1 \in InitPlaces, p2 \in InitPlaces2 :
          lists = [n \in ListNames |->
                     KeySeq({k \in Keys : (IF k = "k1" THEN p1 ELSE p2) = n})]
    /\ \E r1 \in InitRecords, r2 \in InitRecords2 :
          hashes = [k \in Keys |-> IF k = "k1" THEN r1 ELSE r2]
    /\ jan = [j \in {1} |-> NewJanitor(STALE_TIME, pod_refresh_interval)]
    /\ caller = Looping
    /\ redis_client = Connected

NextDriver ==
    \/ \E k \in Keys : Scribble(k) /\ UNCHANGED <<caller, redis_client>>
    \/ \E j \in DOMAIN jan : DriverClean(j)
    \/ \E j \in DOMAIN jan : Scan(j) /\ UNCHANGED <<caller, redis_client>>
    \/ \E j \in DOMAIN jan : LRange(j) /\ UNCHANGED <<caller, redis_client>>
    \/ \E j \in DOMAIN jan : CleanKey(j) /\ UNCHANGED <<caller, redis_client>>
    \/ \E j \in DOMAIN jan : DriverSleep(j)
    \/ DriverWake
    \/ \E j \in DOMAIN jan : DriverExcept(j)

SpecDriver == InitDriver /\ [][NextDriver]_vars

\* --------------------------- two janitors, clean_key one command at a time
\* clean_key is cut at its store commands: between the HMGET, the decision,
\* the LREM and the LPUSH of one janitor the other janitor and the consumers
\* may act.  pc is "read" after the HMGET, "remove" before the LREM of
\* remove_key_from_queue called by clean_key, "repair" before the LREM of
\* repair_redis_key and "push" before its LPUSH.

\* res = self.redis_client.hmget(key, *required_keys)
ReadFields(j) ==
    /\ jan[j].pc = "keys"
    /\ jan' = [jan EXCEPT ![j] =
                 [@ EXCEPT !.ck = [NoCall EXCEPT
                                     !.key = Head(jan[j].pending),
                                     !.hvals = hmget(hashes, Head(jan[j].pending))],
                           !.pc = "read"]]
    /\ UNCHANGED <<now, cluster, lists, hashes, env>>

\* clean_key returned ret to the loop of clean(): cleaned + int(is_key_cleaned)
Resume(self, ret) ==
    [self EXCEPT !.is_key_cleaned = ret,
                 !.cleaned = @ + int(ret),
                 !.pending = Tail(@),
                 !.pc = IF Tail(self.pending) = <<>> THEN "scan" ELSE "keys"]

\* `if not any(res)`, should_clean_key and the status test of clean_key
Decide(j, api_ok) ==
    /\ jan[j].pc = "read"
    /\ IF ~AnyField(jan[j].ck.hvals)
       THEN jan' = [jan EXCEPT ![j] = [@ EXCEPT !.pc = "remove"]]
       ELSE \E sc \in {should_clean_key(jan[j], jan[j].ck.key,
                                        jan[j].ck.hvals.updated_at,
                                        list_pod_for_all_namespaces(cluster, api_ok),
                                        now)} :
              LET seen == [sc.self EXCEPT !.ck.updated_seconds = sc.updated_seconds,
                                          !.ck.should_clean = sc.res]
              IN  jan' = [jan EXCEPT ![j] =
                            IF sc.raised # None THEN [seen EXCEPT !.pc = sc.raised]
                            ELSE IF ~sc.res THEN Resume(seen, FALSE)
                            ELSE IF jan[j].ck.hvals.status \in FinishedStatuses
                            THEN [seen EXCEPT !.pc = "remove"]
                            ELSE [seen EXCEPT !.pc = "repair"]]
    /\ UNCHANGED <<now, cluster, lists, hashes, env>>

\* return bool(self.remove_key_from_queue(key))
RemoveOnly(j) ==
    /\ jan[j].pc = "remove"
    /\ \E rm \in {remove_key_from_queue(jan[j], lists, jan[j].ck.key)} :
          /\ lists' = rm.lists
          /\ jan' = [jan EXCEPT ![j] =
                       Resume([@ EXCEPT !.ck.is_removed = rm.res], rm.res # 0)]
    /\ UNCHANGED <<now, cluster, hashes, env>>

\* repair_redis_key: is_removed = self.remove_key_from_queue(redis_key); when
\* nothing was removed it returns at once
RepairRemove(j) ==
    /\ jan[j].pc = "repair"
    /\ \E rm \in {remove_key_from_queue(jan[j], lists, jan[j].ck.key)} :
          /\ lists' = rm.lists
          /\ jan' = [jan EXCEPT ![j] =
                       IF rm.res # 0
                       THEN [@ EXCEPT !.ck.is_removed = rm.res, !.pc = "push"]
                       ELSE Resume([@ EXCEPT !.ck.is_removed = rm.res], FALSE)]
    /\ UNCHANGED <<now, cluster, hashes, env>>

\* repair_redis_key: self.redis_client.lpush(source_queue, redis_key)
RepairPush(j) ==
    /\ jan[j].pc = "push"
    /\ lists' = lpush(lists, SourceQueue(jan[j].cleaning_queue), jan[j].ck.key)
    /\ jan' = [jan EXCEPT ![j] = Resume(@, jan[j].ck.is_removed # 0)]
    /\ UNCHANGED <<now, cluster, hashes, env>>

\* the records the first key has when two janitors sweep: unfinished,
\* finished, or none
RaceRecords ==
    {NoRecord}
    \cup {[status |-> s, updated_at |-> <<0>>, updated_by |-> Pod]
            : s \in {"started", "done"}}

\* both keys are held in entries, `pod` is running, gone or evicted, the
\* cluster answers every listing or none, and two janitors with a refresh
\* interval of 0 are about to sweep
InitRace ==
    /\ now = StartTime
    /\ env = 0
    /\ cluster \in {cl \in InitClusters : cl[ZipPod] = "Running"}
    /\ \E p2 \in {EntryOf(Pod), EntryOf(ZipPod)} :
          lists = [n \in ListNames |->
                     KeySeq({k \in Keys : (IF k = "k1" THEN EntryOf(Pod) ELSE p2) = n})]
    /\ \E r1 \in RaceRecords :
          hashes = [k \in Keys |->
                      IF k = "k1" THEN r1
                      ELSE [status |-> "started", updated_at |-> <<0>>,
                            updated_by |-> Pod]]
    /\ jan = [j \in {1, 2} |-> NewJanitor(STALE_TIME, 0)]
    /\ \E up \in BOOLEAN : caller = [NoCaller EXCEPT !.api_ok = up]
    /\ redis_client = Connected

NextRace ==
    \/ \E w \in PodNames, k \in Keys, status \in Statuses :
          Update(w, k, status) /\ UNCHANGED <<caller, redis_client>>
    \/ \E j \in DOMAIN jan : CallClean(j)
    \/ \E j \in DOMAIN jan : Scan(j) /\ UNCHANGED <<caller, redis_client>>
    \/ \E j \in DOMAIN jan : LRange(j) /\ UNCHANGED <<caller, redis_client>>
    \/ \E j \in DOMAIN jan : ReadFields(j) /\ UNCHANGED <<caller, redis_client>>
    \/ \E j \in DOMAIN jan : Decide(j, caller.api_ok) /\ UNCHANGED <<caller, redis_client>>
    \/ \E j \in DOMAIN jan : RemoveOnly(j) /\ UNCHANGED <<caller, redis_client>>
    \/ \E j \in DOMAIN jan : RepairRemove(j) /\ UNCHANGED <<caller, redis_client>>
    \/ \E j \in DOMAIN jan : RepairPush(j) /\ UNCHANGED <<caller, redis_client>>
    \/ \E j \in DOMAIN jan : ReturnClean(j)

SpecRace == InitRace /\ [][NextRace]_vars

\* ------------------------------- the deployed process, stopped on the way
\* the loop of clean-redis.py around one janitor whose clean_key runs one
\* store command at a time; the LPUSH of a repair may raise, and the process
\* may be killed from outside at any point of a sweep

\* self.redis_client.lpush(source_queue, redis_key) raises: the command was
\* refused by the store, and the exception leaves clean()
LPushRaises(j) ==
    /\ jan[j].pc = "push"
    /\ jan' = [jan EXCEPT ![j] = [@ EXCEPT !.pc = "ResponseError"]]
    /\ UNCHANGED <<now, cluster, lists, hashes, env>>

\* the process is killed while clean() runs: nothing of it runs any more
Killed(j) ==
    /\ caller.op = "clean"
    /\ jan' = [jan EXCEPT ![j] = [@ EXCEPT !.pc = "idle"]]
    /\ caller' = [caller EXCEPT !.op = "exit", !.raised = "SIGKILL",
                                !.exit = <<137>>]
    /\ UNCHANGED <<now, cluster, lists, hashes, env, redis_client>>

InitCrash ==
    /\ now = StartTime
    /\ env = 0
    /\ cluster \in {cl \in InitClusters : cl[ZipPod] = "Running"}
    /\ \E p2 \in {EntryOf(Pod), EntryOf(ZipPod)} :
          lists = [n \in ListNames |->
                     KeySeq({k \in Keys : (IF k = "k1" THEN EntryOf(Pod) ELSE p2) = n})]
    /\ \E r1 \in RaceRecords :
          hashes = [k \in Keys |->
                      IF k = "k1" THEN r1
                      ELSE [status |-> "started", updated_at |-> <<0>>,
                            updated_by |-> Pod]]
    /\ jan = [j \in {1} |-> NewJanitor(STALE_TIME, pod_refresh_interval)]
    /\ caller = Looping
    /\ redis_client = Connected

NextCrash ==
    \/ \E j \in DOMAIN jan : DriverClean(j)
    \/ \E j \in DOMAIN jan : Scan(j) /\ UNCHANGED <<caller, redis_client>>
    \/ \E j \in DOMAIN jan : LRange(j) /\ UNCHANGED <<caller, redis_client>>
    \/ \E j \in DOMAIN jan : ReadFields(j) /\ UNCHANGED <<caller, redis_client>>
    \/ \E j \in DOMAIN jan, api_ok \in BOOLEAN :
          Decide(j, api_ok) /\ UNCHANGED <<caller, redis_client>>
    \/ \E j \in DOMAIN jan : RemoveOnly(j) /\ UNCHANGED <<caller, redis_client>>
    \/ \E j \in DOMAIN jan : RepairRemove(j) /\ UNCHANGED <<caller, redis_client>>
    \/ \E j \in DOMAIN jan : RepairPush(j) /\ UNCHANGED <<caller, redis_client>>
    \/ \E j \in DOMAIN jan : LPushRaises(j) /\ UNCHANGED <<caller, redis_client>>
    \/ \E j \in DOMAIN jan : DriverSleep(j)
    \/ DriverWake
    \/ \E j \in DOMAIN jan : DriverExcept(j)
    \/ \E j \in DOMAIN jan : Killed(j)

SpecCrash == InitCrash /\ [][NextCrash]_vars

\* ------------------------------------- records that were never stamped
\* the first key's record has a status and a writer and no updated_at; the
\* second key waits on the work queue
UnstampedRecords ==
    {[status |-> s, updated_at |-> NoTs, updated_by |-> Pod]
       : s \in {"new", "started"}}

InitUnstamped ==
    /\ now = StartTime
    /\ env = 0
    /\ caller = NoCaller
    /\ redis_client = Connected
    /\ cluster \in {cl \in InitClusters : cl[ZipPod] = NotFound}
    /\ \E p1 \in InitPlaces :
          lists = [n \in ListNames |->
                     KeySeq({k \in Keys :
                               (IF k = "k1" THEN p1 ELSE WorkQueueOf(Pod)) = n})]
    /\ \E r1 \in UnstampedRecords, r2 \in InitRecords2 :
          hashes = [k \in Keys |-> IF k = "k1" THEN r1 ELSE r2]
    /\ \E c \in Configs :
          jan = [j \in {1} |-> NewJanitor(c.stale_time, c.pod_refresh_interval)]

SpecUnstamped ==
    /\ InitUnstamped
    /\ [][Next]_vars
    /\ WF_vars(Tick /\ UNCHANGED <<caller, redis_client>>)
    /\ \A j \in {1} : WF_vars(JanitorStep(j))

\* --------------------------------------------- names of queues and entries
\* the `queue` arguments a janitor is built with: a plain name, a name with
\* a colon and a name that holds `processing-`
TestQueueNames ==
    {<<"q">>, <<"a", ":", "b">>, <<"x-", "processing-", "y">>}

\* the processing queues of a janitor built with `queue`
ProcessingQueuesFor(queue) ==
    ProcessingQueuesOf(Split(Lower(queue), QUEUE_DELIMITER))

\* the entry in which the consumer named w of the i-th processing queue
\* parks the key it holds
EntryAt(queue, i, w) == ProcessingQueuesFor(queue)[i] \o <<":">> \o w

\* the work queues of the configured names: each name and its -zip queue
RECURSIVE WorkQueuesOf(_)
WorkQueuesOf(qs) ==
    IF qs = <<>> THEN <<>>
    ELSE <<Head(qs), Head(qs) \o <<"-zip">> >> \o WorkQueuesOf(Tail(qs))

\* the keys of the store: the work queues, the entries, and the lists a
\* repair pushes to
NameSpace ==
    UNION {LET pqs == ProcessingQueuesFor(queue)
               entries == {EntryAt(queue, i, w) : i \in DOMAIN pqs, w \in PodNames}
           IN  Range(WorkQueuesOf(Split(Lower(queue), QUEUE_DELIMITER)))
                   \cup entries \cup {SourceQueue(e) : e \in entries}
           : queue \in TestQueueNames}

\* a consumer named w holds `key` in its entry
Park(queue, i, w, key) ==
    /\ \A n \in DOMAIN lists : key \notin Range(lists[n])
    /\ lists' = lpush(lists, EntryAt(queue, i, w), key)
    /\ UNCHANGED <<now, cluster, hashes, jan, env>>

\* janitor = self.get_client(queue=queue)
\* janitor.cleaning_queue = entry; janitor.repair_redis_key(key)
CallRepairRedisKey(j, queue, i, w, key) ==
    /\ caller.calls < MaxCalls
    /\ \E self \in {[jan[j] EXCEPT !.cleaning_queue = EntryAt(queue, i, w)]} :
       \E r \in {repair_redis_key(self, lists, key)} :
          /\ jan' = [jan EXCEPT ![j] = self]
          /\ lists' = r.lists
          /\ caller' = Called("repair_redis_key", <<queue, i, w, key>>, TRUE,
                              [raised |-> None, queries |-> 0], <<r.res>>)
    /\ UNCHANGED <<now, cluster, hashes, env, redis_client>>

InitNames ==
    /\ now = StartTime
    /\ env = 0
    /\ caller = [NoCaller EXCEPT !.res = <<>>]
    /\ redis_client = Connected
    /\ cluster = [w \in PodNames |-> "Running"]
    /\ lists = [n \in NameSpace |-> <<>>]
    /\ hashes = [k \in Keys |->
                   [status |-> "started", updated_at |-> <<0>>, updated_by |-> Pod]]
    /\ jan = [j \in {1} |-> NewJanitor(STALE_TIME, pod_refresh_interval)]

NextNames ==
    \/ \E queue \in TestQueueNames, w \in PodNames, key \in Keys :
       \E i \in DOMAIN ProcessingQueuesFor(queue) :
          Park(queue, i, w, key) /\ UNCHANGED <<caller, redis_client>>
    \/ \E j \in DOMAIN jan, queue \in TestQueueNames, w \in PodNames, key \in Keys :
       \E i \in DOMAIN ProcessingQueuesFor(queue) :
          CallRepairRedisKey(j, queue, i, w, key)

SpecNames == InitNames /\ [][NextNames]_vars

\* ================================================================ claims
\* the step of janitor j that runs clean_key on the next key of the entry
CleanKeyStep(j) == jan[j].pc = "keys" /\ jan'[j] # jan[j]

\* the key, the entry and the record that step works on
NextKey(j) == Head(jan[j].pending)
Entry(j) == jan[j].cleaning_queue
Rec(j) == hashes[NextKey(j)]

\* none of status, updated_at, updated_by is retrievable
Malformed(r) == r.status = None /\ r.updated_at = NoTs /\ r.updated_by = <<>>
Usable(r) == ~Malformed(r)

\* the record's age when the step runs, for a record that carries updated_at
Aged(r) == r.updated_at # NoTs /\ r.updated_at[1] <= now
Age(r) == now - r.updated_at[1]
Guard(j) == 3 * jan[j].pod_refresh_interval

\* the liveness snapshot the step consulted says w is gone / is unaccepted
AbsentAfter(j, w) == w \notin DOMAIN jan'[j].pods
UnacceptedAfter(j, w) ==
    w \in DOMAIN jan'[j].pods /\ jan'[j].pods[w] \notin {"Running"}
RunningAfter(j, w) ==
    w \in DOMAIN jan'[j].pods /\ jan'[j].pods[w] = "Running"

\* C1: repair round trip.  clean_key on a key held in processing-<q>:<w>,
\* whose record has usable fields, a status other than done or failed and an
\* age above 3 x pod_refresh_interval, and whose worker w is absent from the
\* liveness snapshot, returns true; afterwards the key is on the work queue
\* <q> and no longer in processing-<q>:<w>.
C1_RepairRoundTrip ==
    [][\A j \in DOMAIN jan : \A w \in PodNames :
          ( /\ CleanKeyStep(j)
            /\ Entry(j) = EntryOf(w)
            /\ NextKey(j) \in Range(lists[EntryOf(w)])
            /\ Usable(Rec(j))
            /\ Rec(j).status \notin {"done", "failed"}
            /\ Aged(Rec(j)) /\ Age(Rec(j)) > Guard(j)
            /\ AbsentAfter(j, w) )
          => ( /\ jan'[j].is_key_cleaned = TRUE
               /\ NextKey(j) \in Range(lists'[WorkQueueOf(w)])
               /\ NextKey(j) \notin Range(lists'[EntryOf(w)]) )]_vars

C1_Witness ==
    /\ jan[1].pc # "idle"
    /\ jan[1].cleaning_queue = EntryOf(Pod)
    /\ jan[1].ck.key = "k1"
    /\ jan[1].ck.hvals.status = "new"
    /\ jan[1].ck.updated_seconds > 3 * jan[1].pod_refresh_interval
    /\ jan[1].pod_refresh_interval = 1
    /\ Pod \notin DOMAIN jan[1].pods
    /\ jan[1].is_key_cleaned
    /\ "k1" \in Range(lists[WorkQueueOf(Pod)])
    /\ "k1" \notin Range(lists[EntryOf(Pod)])

\* C2: freshness guard.  should_clean_key answers false for every entry whose
\* record is at most 3 x pod_refresh_interval old, whatever the cluster says
\* about the worker.
C2_FreshnessGuard ==
    [][\A j \in DOMAIN jan :
          ( /\ CleanKeyStep(j)
            /\ Usable(Rec(j))
            /\ Aged(Rec(j)) /\ Age(Rec(j)) <= Guard(j) )
          => ( /\ jan'[j].ck.key = NextKey(j)
               /\ jan'[j].ck.should_clean = FALSE )]_vars

C2_Witness ==
    /\ jan[1].pc # "idle"
    /\ jan[1].cleaning_queue = EntryOf(Pod)
    /\ jan[1].ck.key = "k1"
    /\ jan[1].ck.hvals.updated_at = <<0>>
    /\ jan[1].pod_refresh_interval = 1
    /\ jan[1].ck.updated_seconds = 3
    /\ cluster[Pod] = NotFound
    /\ jan[1].ck.should_clean = FALSE
    /\ jan[1].is_key_cleaned = FALSE

\* C3: past the freshness guard should_clean_key answers true whenever the
\* worker named by the entry (the part of the entry name after the queue
\* name, not the record's updated_by) is absent from the liveness snapshot or
\* is in it with a phase that is not accepted.
C3_DeadWorkerIsCleaned ==
    [][\A j \in DOMAIN jan : \A w \in PodNames :
          ( /\ CleanKeyStep(j)
            /\ Entry(j) = EntryOf(w)
            /\ Usable(Rec(j))
            /\ Aged(Rec(j)) /\ Age(Rec(j)) > Guard(j)
            /\ (AbsentAfter(j, w) \/ UnacceptedAfter(j, w)) )
          => jan'[j].ck.should_clean = TRUE]_vars

C3_Witness ==
    /\ jan[1].pc # "idle"
    /\ jan[1].cleaning_queue = EntryOf(ZipPod)
    /\ jan[1].ck.key = "k1"
    /\ jan[1].ck.hvals.updated_by = Pod
    /\ Pod \in DOMAIN jan[1].pods /\ jan[1].pods[Pod] = "Evicted"
    /\ ZipPod \notin DOMAIN jan[1].pods
    /\ jan[1].ck.updated_seconds > 3 * jan[1].pod_refresh_interval
    /\ jan[1].ck.should_clean = TRUE

\* C4: when the worker named by the entry is in the liveness snapshot with the
\* accepted phase Running, should_clean_key and clean_key answer false however
\* old the record is; the key stays in its entry and nothing is pushed.
C4_RunningWorkerIsKept ==
    [][\A j \in DOMAIN jan : \A w \in PodNames :
          ( /\ CleanKeyStep(j)
            /\ Entry(j) = EntryOf(w)
            /\ Usable(Rec(j))
            /\ RunningAfter(j, w) )
          => ( /\ jan'[j].ck.should_clean = FALSE
               /\ jan'[j].is_key_cleaned = FALSE
               /\ lists' = lists )]_vars

C4_Witness ==
    /\ jan[1].pc # "idle"
    /\ jan[1].cleaning_queue = EntryOf(Pod)
    /\ jan[1].ck.key = "k1"
    /\ jan[1].ck.hvals.updated_at = <<0>>
    /\ jan[1].pod_refresh_interval = 1
    /\ jan[1].ck.updated_seconds = 4
    /\ Pod \in DOMAIN jan[1].pods /\ jan[1].pods[Pod] = "Running"
    /\ jan[1].is_key_cleaned = FALSE
    /\ "k1" \in Range(lists[EntryOf(Pod)])

\* the worker's name begins with a whitelisted prefix
Whitelisted(w) == StartsWith(w, <<"zip-consumer">>)

C7_MalformedIsRemoved ==
    [][\A j \in DOMAIN jan :
          ( /\ CleanKeyStep(j)
            /\ Malformed(Rec(j))
            /\ NextKey(j) \in Range(lists[Entry(j)]) )
          => ( /\ jan'[j].is_key_cleaned = TRUE
               /\ lists' = [lists EXCEPT ![Entry(j)] = RemoveFirst(@, NextKey(j))]
               /\ NextKey(j) \notin Range(lists'[Entry(j)])
               /\ jan'[j].pods = jan[j].pods
               /\ jan'[j].pods_updated_at = jan[j].pods_updated_at
               /\ jan'[j].cleaned = jan[j].cleaned + 1 )]_vars

C7_Witness ==
    /\ jan[1].pc # "idle"
    /\ jan[1].cleaning_queue = EntryOf(Pod)
    /\ jan[1].ck.key = "k1"
    /\ jan[1].ck.hvals = NoRecord
    /\ cluster[Pod] = "Running"
    /\ jan[1].pods_updated_at = NoTs
    /\ jan[1].is_key_cleaned = TRUE
    /\ jan[1].cleaned = 1
    /\ "k1" \notin Range(lists[EntryOf(Pod)])

\* C8: finished and stale.  When the record's status is done or failed and
\* should_clean_key answers true, clean_key removes the key from its entry and
\* answers true, and pushes the key onto no work queue.
C8_FinishedIsDropped ==
    [][\A j \in DOMAIN jan :
          ( /\ CleanKeyStep(j)
            /\ Usable(Rec(j))
            /\ Rec(j).status \in {"done", "failed"}
            /\ jan'[j].ck.should_clean = TRUE )
          => ( /\ \A n \in ListNames \ {Entry(j)} : lists'[n] = lists[n]
               /\ NextKey(j) \in Range(lists[Entry(j)])
                    => ( /\ jan'[j].is_key_cleaned = TRUE
                         /\ lists'[Entry(j)] = RemoveFirst(lists[Entry(j)], NextKey(j))
                         /\ NextKey(j) \notin Range(lists'[Entry(j)]) ) )]_vars

C8_Witness ==
    /\ jan[1].pc # "idle"
    /\ jan[1].cleaning_queue = EntryOf(Pod)
    /\ jan[1].ck.key = "k1"
    /\ jan[1].ck.hvals.status = "failed"
    /\ jan[1].ck.should_clean = TRUE
    /\ jan[1].is_key_cleaned = TRUE
    /\ \A n \in ListNames : "k1" \notin Range(lists[n])

\* C9: for an unfinished stale record clean_key answers true exactly when the
\* removal found the key in the entry and removed it; a key that left the
\* entry between the listing of the entry and the removal is answered with
\* false and adds nothing to the sweep's count.
C9_CleanedIffRemoved ==
    [][\A j \in DOMAIN jan :
          ( /\ CleanKeyStep(j)
            /\ Usable(Rec(j))
            /\ Rec(j).status \notin {"done", "failed"}
            /\ jan'[j].ck.should_clean = TRUE )
          => ( /\ jan'[j].is_key_cleaned = (NextKey(j) \in Range(lists[Entry(j)]))
               /\ jan'[j].is_key_cleaned =
                    (Len(lists'[Entry(j)]) = Len(lists[Entry(j)]) - 1)
               /\ jan'[j].cleaned =
                    jan[j].cleaned + (IF jan'[j].is_key_cleaned THEN 1 ELSE 0)
               /\ NextKey(j) \notin Range(lists[Entry(j)])
                    => jan'[j].cleaned = jan[j].cleaned )]_vars

C9_Witness ==
    /\ jan[1].pc # "idle"
    /\ jan[1].cleaning_queue = EntryOf(Pod)
    /\ jan[1].ck.key = "k1"
    /\ jan[1].ck.hvals.status = "started"
    /\ jan[1].ck.should_clean = TRUE
    /\ jan[1].is_key_cleaned = FALSE
    /\ jan[1].cleaned = 0
    /\ env = 1

\* C10: the repair pushes the key onto the work queue only if the removal
\* from the entry succeeded; if the removal found nothing, the repair pushes
\* nothing, changes no list and answers with a falsy result.
C10_PushOnlyAfterRemoval ==
    [][\A j \in DOMAIN jan : \A w \in PodNames :
          ( /\ CleanKeyStep(j)
            /\ Entry(j) = EntryOf(w)
            /\ Usable(Rec(j))
            /\ Rec(j).status \notin {"done", "failed"}
            /\ jan'[j].ck.should_clean = TRUE )
          => ( /\ (\E n \in ListNames \ {EntryOf(w)} : lists'[n] # lists[n])
                    => ( /\ jan'[j].ck.is_removed # 0
                         /\ NextKey(j) \in Range(lists[EntryOf(w)])
                         /\ lists'[EntryOf(w)] =
                              RemoveFirst(lists[EntryOf(w)], NextKey(j)) )
               /\ jan'[j].ck.is_removed = 0
                    => ( /\ lists' = lists
                         /\ jan'[j].is_key_cleaned = FALSE )
               /\ jan'[j].ck.is_removed # 0
                    => lists'[WorkQueueOf(w)] =
                         <<NextKey(j)>> \o lists[WorkQueueOf(w)] )]_vars

C10_Witness ==
    /\ jan[1].pc # "idle"
    /\ jan[1].cleaning_queue = EntryOf(ZipPod)
    /\ jan[1].ck.key = "k1"
    /\ jan[1].ck.hvals.status = "new"
    /\ jan[1].ck.should_clean = TRUE
    /\ jan[1].ck.is_removed = 0
    /\ jan[1].is_key_cleaned = FALSE
    /\ \A n \in ListNames : "k1" \notin Range(lists[n])

\* the record is within the freshness guard when the step runs
Fresh(j) == Aged(Rec(j)) /\ Age(Rec(j)) <= Guard(j)

\* C11: too fresh.  When the record has usable fields and should_clean_key
\* answers false (as it does for every status, new, started, done or failed,
\* of a record that is within the freshness guard), clean_key answers false
\* and does nothing: the key is removed from no entry, nothing is pushed onto
\* a work queue, and the sweep's count stays.
C11_TooFreshNoAction ==
    [][\A j \in DOMAIN jan :
          ( /\ CleanKeyStep(j)
            /\ Usable(Rec(j))
            /\ (jan'[j].ck.should_clean = FALSE \/ Fresh(j)) )
          => ( /\ jan'[j].ck.key = NextKey(j)
               /\ jan'[j].is_key_cleaned = FALSE
               /\ lists' = lists
               /\ jan'[j].cleaned = jan[j].cleaned )]_vars

C11_Witness ==
    /\ jan[1].pc # "idle"
    /\ jan[1].cleaning_queue = EntryOf(Pod)
    /\ jan[1].ck.key = "k1"
    /\ jan[1].ck.hvals.status = "done"
    /\ jan[1].ck.hvals.updated_at = <<0>>
    /\ jan[1].ck.updated_seconds <= 3 * jan[1].pod_refresh_interval
    /\ cluster[Pod] = NotFound
    /\ jan[1].ck.should_clean = FALSE
    /\ jan[1].is_key_cleaned = FALSE
    /\ jan[1].cleaned = 0
    /\ "k1" \in Range(lists[EntryOf(Pod)])

\* the direct call of method op that is just over
CallStep(op) == caller'.op = op /\ caller'.calls = caller.calls + 1

\* the janitor's state when a method is called on it
Interval(j) == jan[j].pod_refresh_interval
Unspoilt(j) == jan[j].pods_updated_at = NoTs \/ Len(jan[j].pods_updated_at) = 1

\* the record has fields, but no updated_at
Unstamped(r) == Usable(r) /\ r.updated_at = NoTs

\* C12 as stated: for a record that has no updated_at should_clean_key
\* answers false for every pod_refresh_interval and every state of the
\* worker, and so does clean_key.
C12_Original ==
    [][\A j \in DOMAIN jan : \A k \in Keys :
          ( /\ CallStep("should_clean_key") \/ CallStep("clean_key")
            /\ caller'.arg = <<k>>
            /\ Unspoilt(j)
            /\ Unstamped(hashes[k]) )
          => ( /\ caller'.raised = None
               /\ caller'.res = FALSE )]_vars

\* C12 amended: a record that has no updated_at counts as 0 seconds old.
\* With a pod_refresh_interval of 0 or more should_clean_key and clean_key
\* answer false for it whatever the worker's state, asking the cluster
\* nothing and changing nothing.  With a negative pod_refresh_interval age 0
\* is past the freshness guard: should_clean_key answers by the liveness of
\* the entry's worker alone, and clean_key answers true exactly when that
\* worker is not Running in the snapshot and the key is in the entry.
C12_UnstampedIsFreshFromZero ==
    [][\A j \in DOMAIN jan : \A k \in Keys : \A w \in PodNames :
          ( /\ CallStep("should_clean_key") \/ CallStep("clean_key")
            /\ caller'.arg = <<k>>
            /\ Unspoilt(j)
            /\ Entry(j) = EntryOf(w)
            /\ Unstamped(hashes[k]) )
          => ( /\ caller'.raised = None
               /\ Interval(j) >= 0
                    => ( /\ caller'.res = FALSE
                         /\ caller'.queries = 0
                         /\ jan' = jan
                         /\ lists' = lists )
               /\ (Interval(j) < 0 /\ caller'.op = "should_clean_key")
                    => caller'.res = ~RunningAfter(j, w)
               /\ (Interval(j) < 0 /\ caller'.op = "clean_key")
                    => caller'.res = ( /\ ~RunningAfter(j, w)
                                       /\ k \in Range(lists[EntryOf(w)]) ) )]_vars

C12_Witness ==
    /\ caller.op = "clean_key"
    /\ caller.arg = <<"k1">>
    /\ hashes["k1"].status = "started"
    /\ hashes["k1"].updated_at = NoTs
    /\ jan[1].pod_refresh_interval = 0
    /\ jan[1].cleaning_queue = EntryOf(Pod)
    /\ cluster[Pod] = NotFound
    /\ caller.raised = None
    /\ caller.res = FALSE
    /\ "k1" \in Range(lists[EntryOf(Pod)])

\* C13: the sweep is idempotent.  When clean() is called again after a
\* clean() that returned, with the store, the cluster (the pods and whether
\* it answers) and the clock as the first call left them, the second call
\* repairs nothing: no list changes, nothing is counted, and total_repairs is
\* after the second call what it was after the first.
C13_SecondSweepRepairsNothing ==
    [][\A j \in DOMAIN jan :
          caller.calls >= 1
          => ( /\ lists' = lists
               /\ jan'[j].cleaned = 0
               /\ jan'[j].is_key_cleaned = FALSE
               /\ jan'[j].total_repairs = jan[j].total_repairs )]_vars

C13_Witness ==
    /\ caller.calls = 2
    /\ jan[1].pc = "idle"
    /\ jan[1].total_repairs = 1
    /\ "k2" \in Range(lists[WorkQueueOf(Pod)])
    /\ "k1" \in Range(lists[EntryOf(Pod)])
    /\ hashes["k1"].updated_at = <<StartTime>>
    /\ hashes["k2"].status = "started"
    /\ cluster[Pod] = NotFound
    /\ now = StartTime + 1
    /\ jan[1].pod_refresh_interval = 1
    /\ caller.api_ok

\* key k of an unfinished record that carries updated_at sits in the entry
\* of worker w, w is absent from the cluster, and the clock can still take
\* the record past the freshness guard of janitor 1
Stranded(k, w) ==
    /\ k \in Range(lists[EntryOf(w)])
    /\ cluster[w] = NotFound
    /\ hashes[k].status \notin {"done", "failed"}
    /\ hashes[k].updated_at # NoTs
    /\ hashes[k].updated_at[1] + 3 * jan[1].pod_refresh_interval
          < StartTime + MaxTicks

\* k has left the entry of w and is on the work queue of that entry
Requeued(k, w) ==
    /\ k \notin Range(lists[EntryOf(w)])
    /\ k \in Range(lists[WorkQueueOf(w)])

\* C14: eventual convergence.  With the sweeps going on and the clock
\* advancing, every unfinished record that carries updated_at and sits in
\* the entry of a worker that is absent from the cluster is in the end
\* removed from that entry and pushed onto its work queue, unless the worker
\* comes back.
C14_Convergence ==
    \A k \in Keys : \A w \in PodNames :
        Stranded(k, w) ~> (Requeued(k, w) \/ cluster[w] # NotFound)

C14_Witness ==
    /\ now = StartTime + 1
    /\ env = 1
    /\ cluster[ZipPod] = NotFound
    /\ hashes["k1"].status = "started"
    /\ hashes["k1"].updated_at = <<0>>
    /\ jan[1].pod_refresh_interval = 1
    /\ jan[1].ck.key = "k1"
    /\ jan[1].cleaning_queue = EntryOf(ZipPod)
    /\ jan[1].is_key_cleaned
    /\ "k1" \notin Range(lists[EntryOf(ZipPod)])
    /\ "k1" \in Range(lists[WorkQueueOf(ZipPod)])

\* the steps of clean(): its first, the clean_key calls, and its last
SweepStarts(j) == jan[j].pc = "idle" /\ jan'[j].pc = "scan"
SweepEnds(j) == jan[j].pc = "scan" /\ jan'[j].pc = "idle"

\* C15: counters.  The sweep's count starts at 0 and goes up by one with
\* every clean_key that answers true, and by nothing else; the clean() that
\* completes adds exactly that count to total_repairs; no other step changes
\* total_repairs, which therefore never goes down.
C15_Counters ==
    [][\A j \in DOMAIN jan :
          /\ SweepStarts(j) => jan'[j].cleaned = 0
          /\ CleanKeyStep(j)
               => jan'[j].cleaned =
                    jan[j].cleaned + (IF jan'[j].is_key_cleaned THEN 1 ELSE 0)
          /\ (~SweepStarts(j) /\ ~CleanKeyStep(j))
               => jan'[j].cleaned = jan[j].cleaned
          /\ SweepEnds(j)
               => jan'[j].total_repairs = jan[j].total_repairs + jan[j].cleaned
          /\ ~SweepEnds(j) => jan'[j].total_repairs = jan[j].total_repairs
          /\ jan'[j].total_repairs >= jan[j].total_repairs
          /\ jan[j].cleaned >= 0]_vars

C15_Witness ==
    /\ jan[1].pc = "idle"
    /\ jan[1].cleaned = 2
    /\ jan[1].total_repairs = 2
    /\ \A k \in Keys : k \in Range(lists[WorkQueueOf(Pod)])

\* the snapshot of janitor j after the step is empty and marked unrefreshed
UnrefreshedAfter(j) ==
    DOMAIN jan'[j].pods = {} /\ jan'[j].pods_updated_at = NoTs

\* the snapshot after the step was taken from the cluster in this step: it
\* is stamped with the time of the step and holds the listed pods with their
\* phases, or nothing when the listing failed
QueriedAfter(j) ==
    /\ jan'[j].pods_updated_at = <<now>>
    /\ \/ DOMAIN jan'[j].pods = {}
       \/ /\ DOMAIN jan'[j].pods = {w \in PodNames : cluster[w] # NotFound}
          /\ \A w \in DOMAIN jan'[j].pods : jan'[j].pods[w] = cluster[w]

\* clean_key gets as far as asking whether the worker is alive
LivenessChecked(j) ==
    Usable(Rec(j)) /\ Aged(Rec(j)) /\ Age(Rec(j)) > Guard(j)

\* C16: every clean() that completes leaves the snapshot empty and marked
\* unrefreshed, and nothing but a liveness check touches it afterwards; so
\* the first liveness check of the next sweep finds it unrefreshed and
\* queries the cluster, whatever the refresh interval.
C16_SnapshotReset ==
    [][\A j \in DOMAIN jan :
          /\ SweepEnds(j) => UnrefreshedAfter(j)
          /\ jan'[j].pc = "idle" => UnrefreshedAfter(j)
          /\ ~CleanKeyStep(j) /\ ~SweepEnds(j)
               => ( /\ jan'[j].pods = jan[j].pods
                    /\ jan'[j].pods_updated_at = jan[j].pods_updated_at )
          /\ ( /\ CleanKeyStep(j)
               /\ jan[j].pods_updated_at = NoTs
               /\ LivenessChecked(j) )
               => QueriedAfter(j)]_vars

C16_Witness ==
    /\ jan[1].total_repairs = 1
    /\ jan[1].pc # "idle"
    /\ jan[1].pod_refresh_interval = 1
    /\ jan[1].ck.key = "k2"
    /\ jan[1].ck.updated_seconds > 3
    /\ jan[1].pods_updated_at = <<now>>
    /\ Pod \in DOMAIN jan[1].pods /\ jan[1].pods[Pod] = "Running"
    /\ cluster[Pod] = "Running"
    /\ "k2" \in Range(lists[EntryOf(Pod)])

\* a method has just been called on the janitor directly
AnyCallStep ==
    \/ CallStep("update_pods") \/ CallStep("is_valid_pod")
    \/ CallStep("should_clean_key") \/ CallStep("clean_key")

\* C17: when the listing of the pods fails with an API error the refresh
\* does not raise: the snapshot becomes empty and is stamped as refreshed,
\* is_valid_pod answers false for every pod name, in that call and in every
\* later call that does not refresh, and the method that asked returns.
C17_ListingFailureIsEmpty ==
    [][\A j \in DOMAIN jan :
          /\ ( /\ AnyCallStep
               /\ caller'.queries = 1
               /\ caller'.api_ok = FALSE )
               => ( /\ caller'.raised = None
                    /\ DOMAIN jan'[j].pods = {}
                    /\ jan'[j].pods_updated_at = <<now>>
                    /\ caller'.op = "is_valid_pod" => caller'.res = FALSE )
          /\ ( /\ CallStep("is_valid_pod")
               /\ caller'.queries = 0
               /\ caller'.raised = None
               /\ DOMAIN jan[j].pods = {} )
               => ( /\ caller'.res = FALSE
                    /\ jan'[j] = jan[j] )]_vars

C17_Witness ==
    /\ caller.calls = 2
    /\ caller.op = "is_valid_pod"
    /\ caller.arg = Pod
    /\ cluster[Pod] = "Running"
    /\ caller.queries = 0
    /\ caller.raised = None
    /\ caller.res = FALSE
    /\ jan[1].pod_refresh_interval = 1
    /\ jan[1].pods_updated_at = <<StartTime>>
    /\ DOMAIN jan[1].pods = {}

\* update_pods is due on janitor j: it never refreshed, or the last refresh
\* is more than pod_refresh_interval ago
Due(j) ==
    \/ jan[j].pods_updated_at = NoTs
    \/ now - jan[j].pods_updated_at[1] > Interval(j)

\* C18: update_pods refreshes if and only if no refresh happened before or
\* more than pod_refresh_interval has passed since the last one; otherwise
\* it leaves the snapshot and its stamp as they are and asks the cluster
\* nothing.
C18_RefreshIffDue ==
    [][\A j \in DOMAIN jan :
          (CallStep("update_pods") /\ Unspoilt(j))
          => ( /\ caller'.raised = None
               /\ Due(j) => (caller'.queries = 1 /\ QueriedAfter(j))
               /\ ~Due(j) => (caller'.queries = 0 /\ jan'[j] = jan[j]) )]_vars

C18_Witness ==
    /\ caller.calls = 2
    /\ caller.op = "update_pods"
    /\ caller.queries = 0
    /\ caller.raised = None
    /\ jan[1].pod_refresh_interval = 1
    /\ now = StartTime + 1
    /\ jan[1].pods_updated_at = <<StartTime>>
    /\ DOMAIN jan[1].pods = {}
    /\ cluster[Pod] = "Running"

\* C19 as stated: with a pod_refresh_interval of 0 or less every call of
\* update_pods refreshes, also a call at the instant of the last refresh.
C19_Original ==
    [][\A j \in DOMAIN jan :
          (CallStep("update_pods") /\ Unspoilt(j) /\ Interval(j) <= 0)
          => (caller'.queries = 1 /\ QueriedAfter(j))]_vars

\* C19 amended: with a negative pod_refresh_interval every call of
\* update_pods refreshes, also a call at the instant of the last refresh.
\* With pod_refresh_interval = 0 a call refreshes when no refresh happened
\* before or the clock has moved on since the last one; a call at the very
\* instant of the last refresh asks the cluster nothing and leaves the
\* snapshot as it is.
C19_NegativeAlwaysZeroWhenTimeMoved ==
    [][\A j \in DOMAIN jan :
          (CallStep("update_pods") /\ Unspoilt(j) /\ Interval(j) <= 0)
          => ( /\ caller'.raised = None
               /\ Interval(j) < 0 => (caller'.queries = 1 /\ QueriedAfter(j))
               /\ (Interval(j) = 0 /\ jan[j].pods_updated_at # <<now>>)
                    => (caller'.queries = 1 /\ QueriedAfter(j))
               /\ (Interval(j) = 0 /\ jan[j].pods_updated_at = <<now>>)
                    => (caller'.queries = 0 /\ jan'[j] = jan[j]) )]_vars

C19_Witness ==
    /\ caller.calls = 2
    /\ caller.op = "update_pods"
    /\ caller.queries = 0
    /\ caller.api_ok
    /\ jan[1].pod_refresh_interval = 0
    /\ now = StartTime
    /\ jan[1].pods_updated_at = <<StartTime>>
    /\ DOMAIN jan[1].pods = {}
    /\ cluster[Pod] = "Running"

\* C20: when pods_updated_at holds a value that is neither None nor a
\* timestamp, update_pods raises ValueError: it asks the cluster nothing and
\* leaves the snapshot and the rest of the janitor as they are; is_valid_pod,
\* which calls it first, lets the error through.
C20_SpoiltStampRaises ==
    [][\A j \in DOMAIN jan :
          ( /\ CallStep("update_pods") \/ CallStep("is_valid_pod")
            /\ ~Unspoilt(j) )
          => ( /\ caller'.raised = "ValueError"
               /\ caller'.queries = 0
               /\ jan'[j] = jan[j]
               /\ lists' = lists )]_vars

C20_Witness ==
    /\ caller.calls = 2
    /\ caller.op = "update_pods"
    /\ caller.raised = "ValueError"
    /\ caller.queries = 0
    /\ caller.api_ok
    /\ jan[1].pods_updated_at = <<"int", 1>>
    /\ Pod \in DOMAIN jan[1].pods /\ jan[1].pods[Pod] = "Evicted"
    /\ cluster[Pod] = "Evicted"

\* the snapshot after the step holds exactly the pods the cluster lists,
\* each with its phase
ListedAfter(j) ==
    /\ DOMAIN jan'[j].pods = {w \in PodNames : cluster[w] # NotFound}
    /\ \A w \in DOMAIN jan'[j].pods : jan'[j].pods[w] = cluster[w]

\* C21: is_valid_pod(w) first brings the snapshot up to date (it refreshes
\* when a refresh is due and leaves the snapshot alone otherwise) and then
\* answers true if and only if the snapshot maps w to the accepted phase
\* Running: false for a name missing from the snapshot and for Pending and
\* Evicted.  After a refresh that the cluster answered the snapshot maps
\* exactly each listed pod name to its phase.
C21_ValidIffAcceptedPhase ==
    [][\A j \in DOMAIN jan : \A w \in PodNames :
          ( /\ CallStep("is_valid_pod")
            /\ caller'.arg = w
            /\ Unspoilt(j) )
          => ( /\ caller'.raised = None
               /\ Due(j) => (caller'.queries = 1 /\ jan'[j].pods_updated_at = <<now>>)
               /\ ~Due(j) => (caller'.queries = 0 /\ jan'[j] = jan[j])
               /\ (caller'.queries = 1 /\ caller'.api_ok) => ListedAfter(j)
               /\ caller'.res = RunningAfter(j, w)
               /\ w \notin DOMAIN jan'[j].pods => caller'.res = FALSE
               /\ ( /\ w \in DOMAIN jan'[j].pods
                    /\ jan'[j].pods[w] \in {"Pending", "Evicted"} )
                    => caller'.res = FALSE )]_vars

C21_Witness ==
    /\ caller.op = "is_valid_pod"
    /\ caller.arg = Pod
    /\ caller.queries = 1
    /\ caller.api_ok
    /\ caller.raised = None
    /\ caller.res = FALSE
    /\ cluster[Pod] = "Pending"
    /\ cluster[ZipPod] = "Running"
    /\ DOMAIN jan[1].pods = {Pod, ZipPod}
    /\ jan[1].pods[Pod] = "Pending"
    /\ jan[1].pods[ZipPod] = "Running"
    /\ jan[1].pods_updated_at = <<now>>

\* the steps of a command that goes through the store client
StoreFailure ==
    redis_client.op # None /\ redis_client'.fail_count # redis_client.fail_count
StoreReturn(op) == redis_client.op = op /\ redis_client'.op = None

ConfiguredNames(queue) ==
    CASE queue = <<"q">> -> << <<"q">> >>
      [] queue = <<"Q">> -> << <<"q">> >>
      [] queue = <<"r">> -> << <<"r">> >>
      [] queue = <<"q", ",", "r">> -> << <<"q">>, <<"r">> >>
      [] queue = <<"q", ",", "q", "-zip">> -> << <<"q">>, <<"q", "-zip">> >>

\* the store key n is `processing-<q>:` followed by anything
MatchesQueue(n, q) ==
    /\ Len(n) >= Len(q) + 2
    /\ n[1] = "processing-"
    /\ SubSeq(n, 2, Len(q) + 1) = q
    /\ n[Len(q) + 2] = ":"

\* the existing keys among S, in the order the scan walks the key space
InScanOrder(S) == SelectSeq(KeyOrder, LAMBDA n : n \in S /\ lists[n] # <<>>)

\* for each queue name in turn: the keys of processing-<q>:*, then those of
\* processing-<q>-zip:*
RECURSIVE ExpectedKeys(_)
ExpectedKeys(qs) ==
    IF qs = <<>> THEN <<>>
    ELSE InScanOrder({n \in ListNames : MatchesQueue(n, Head(qs))})
         \o InScanOrder({n \in ListNames : MatchesQueue(n, Head(qs) \o <<"-zip">>)})
         \o ExpectedKeys(Tail(qs))

\* C23: get_processing_keys yields the existing store keys that match
\* processing-<q>:* or processing-<q>-zip:* for a configured queue name q
\* (the `queue` argument lower-cased and split at the delimiter) and no other
\* key: queue name by queue name, first pattern then second, each in scan
\* order; with no matching key it yields nothing.
C23_EnumeratesProcessingKeys ==
    [][\A queue \in TestQueues :
          (CallStep("get_processing_keys") /\ caller'.arg = queue)
          => ( /\ caller'.raised = None
               /\ caller'.res = <<ExpectedKeys(ConfiguredNames(queue))>>
               /\ Range(caller'.res[1]) =
                    {n \in ListNames :
                        /\ lists[n] # <<>>
                        /\ \E i \in DOMAIN ConfiguredNames(queue) :
                              \/ MatchesQueue(n, ConfiguredNames(queue)[i])
                              \/ MatchesQueue(n, ConfiguredNames(queue)[i]
                                                  \o <<"-zip">>)}
               /\ UNCHANGED <<lists, hashes, jan>> )]_vars

C23_Witness ==
    /\ caller.op = "get_processing_keys"
    /\ caller.arg = <<"Q">>
    /\ \A n \in ListNames : lists[n] # <<>>
    /\ caller.res = << <<EntryOf(Pod), EntryOf(ZipPod)>> >>

\* the step of janitor j that takes the next entry and lists its keys
ListStep(j) ==
    jan[j].pc = "scan" /\ jan[j].scanned # <<>> /\ jan'[j] # jan[j]

\* C24: an entry that holds more than one key does not make clean() fail.
\* The keys of the entry are listed once, all of them, when the entry's turn
\* comes (an entry emptied since the scan lists nothing); clean_key is then
\* run on each listed key in turn, once, whatever has become of the key in
\* the meantime, and every clean_key that answers true adds one to the
\* sweep's count; no exception ends the sweep.
C24_EveryListedKeyIsCleaned ==
    [][\A j \in DOMAIN jan :
          /\ ListStep(j)
               => ( /\ jan'[j].cleaning_queue = Head(jan[j].scanned)
                    /\ jan'[j].pending = lists[Head(jan[j].scanned)]
                    /\ jan'[j].pc = (IF lists[Head(jan[j].scanned)] = <<>>
                                     THEN "scan" ELSE "keys")
                    /\ jan'[j].cleaned = jan[j].cleaned
                    /\ lists' = lists )
          /\ CleanKeyStep(j)
               => ( /\ jan[j].pending # <<>>
                    /\ jan'[j].ck.key = Head(jan[j].pending)
                    /\ jan'[j].pending = Tail(jan[j].pending)
                    /\ jan'[j].cleaning_queue = jan[j].cleaning_queue
                    /\ jan'[j].cleaned =
                         jan[j].cleaned + (IF jan'[j].is_key_cleaned THEN 1 ELSE 0)
                    /\ jan'[j].pc = (IF Len(jan[j].pending) > 1 THEN "keys" ELSE "scan") )
          /\ (~ListStep(j) /\ ~CleanKeyStep(j))
               => jan'[j].pending = jan[j].pending
          /\ jan'[j].pc \in {"idle", "scan", "keys"}]_vars

C24_Witness ==
    /\ jan[1].pc = "scan"
    /\ jan[1].cleaning_queue = EntryOf(Pod)
    /\ jan[1].ck.key = "k2"
    /\ jan[1].pending = <<>>
    /\ jan[1].cleaned = 2
    /\ lists[EntryOf(Pod)] = <<>>
    /\ hashes["k1"].status = "done"
    /\ "k1" \notin Range(lists[WorkQueueOf(Pod)])
    /\ "k2" \in Range(lists[WorkQueueOf(Pod)])

\* ---------------------------------------------------------------- C25
\* an exception has come out of clean() and waits for the driver's handler
Escaped(j) == jan[j].pc \notin {"idle", "scan", "keys"}

\* a step of the driver or of its janitor
DriverStep == jan' # jan \/ caller' # caller \/ now' # now

\* C25: the driver.  The only thing the process does with an exception that
\* came out of a sweep is to log it at CRITICAL and to exit with a status
\* other than 0, touching no list; after that it takes no step at all, so no
\* sweep starts.  Without an exception a sweep starts only at the top of the
\* loop, the sleep begins exactly when the sweep has completed, the sleep
\* lasts INTERVAL and leads back to the top of the loop, and outside
\* janitor.clean() no sweep is under way.
C25_DriverLoop ==
    [][\A j \in DOMAIN jan :
         /\ Escaped(j) /\ DriverStep
              => /\ caller'.op = "exit"
                 /\ caller'.exit # <<>> /\ caller'.exit[1] # 0
                 /\ caller'.critical > caller.critical
                 /\ caller'.raised = jan[j].pc
                 /\ ~Escaped(j)' /\ jan'[j].pc = "idle"
                 /\ lists' = lists
         /\ caller.raised # None => ~DriverStep /\ lists' = lists
         /\ SweepStarts(j) => caller.op = None /\ caller'.op = "clean"
         /\ SweepEnds(j) <=> caller.op = "clean" /\ caller'.op = "sleep"
         /\ caller'.calls = caller.calls + (IF SweepEnds(j) THEN 1 ELSE 0)
         /\ caller.op = "sleep" /\ DriverStep
              => /\ caller'.op = None
                 /\ now' = now + INTERVAL
                 /\ jan' = jan
         /\ caller.op # "sleep" => now' = now
         /\ caller.op # "clean" => jan[j].pc = "idle"
         /\ caller.op = "exit" <=> caller.raised # None
      ]_vars

\* the first sweep completed, the driver slept, and the second sweep met a
\* record stamped with something unreadable: the process has exited with 1
C25_Witness ==
    /\ caller.op = "exit"
    /\ caller.exit = <<1>>
    /\ caller.raised = "ValueError"
    /\ caller.critical = 2
    /\ caller.calls = 1
    /\ now = StartTime + INTERVAL
    /\ jan[1].ck.hvals.updated_at = Unparseable

\* ---------------------------------------------------------------- C26
\* the step in which kill_pod is called and returns
KillStep == caller.op = None /\ caller'.op = "kill_pod"

\* C26: kill_pod.  When the cluster carries out the deletion, kill_pod
\* returns the cluster's response and the pod is gone from the cluster; when
\* the API call fails, kill_pod returns False and the cluster is as it was.
\* In neither case does an exception reach the caller.
C26_KillPodNeverRaises ==
    [][KillStep =>
         /\ caller'.raised = None
         /\ IF caller'.api_ok
            THEN /\ caller'.res = <<TRUE>>
                 /\ cluster' = [cluster EXCEPT ![caller'.arg] = NotFound]
            ELSE /\ caller'.res = <<FALSE>>
                 /\ cluster' = cluster
      ]_vars

\* the deletion of a running pod failed at the API: False came back
C26_Witness ==
    /\ caller.op = "kill_pod"
    /\ caller.arg = Pod
    /\ ~caller.api_ok
    /\ caller.res = <<FALSE>>
    /\ caller.raised = None
    /\ cluster[Pod] = "Running"

\* ---------------------------------------------------------------- C27
\* name begins with prefix, piece by piece
BeginsWith(name, prefix) ==
    /\ Len(prefix) <= Len(name)
    /\ \A i \in 1..Len(prefix) : name[i] = prefix[i]

\* C27: is_whitelisted answers true exactly for the names that begin with at
\* least one of the janitor's whitelisted prefixes, and changes nothing.
C27_WhitelistedIffPrefix ==
    [][\A j \in DOMAIN jan :
         CallStep("is_whitelisted") =>
            /\ caller'.res =
                 << \E p \in Range(jan[j].whitelisted_pods) :
                        BeginsWith(caller'.arg, p) >>
            /\ caller'.raised = None
            /\ jan' = jan
      ]_vars

\* with the prefixes pod1 and pod2, pod2-123-456 is whitelisted
C27_Witness ==
    /\ caller.op = "is_whitelisted"
    /\ jan[1].whitelisted_pods = << <<"pod1">>, <<"pod2">> >>
    /\ caller.arg = <<"pod2", "-123", "-456">>
    /\ caller.res = <<TRUE>>

\* ---------------------------------------------------------------- C28
\* the arguments of the is_stale_update_time call made in this step
UpdatedTimeArg == caller'.arg[1]
StaleTimeArg == caller'.arg[2]

\* the threshold the claim puts in effect: the argument when one is given
ThresholdInEffect(j) ==
    IF StaleTimeArg # <<>> THEN StaleTimeArg[1] ELSE jan[j].stale_time

\* C28: is_stale_update_time answers with the stale_time argument as the
\* threshold when one is given and with the janitor's stale_time otherwise:
\* false for a missing timestamp, false for a threshold of 0 or less, and
\* otherwise true exactly when the timestamp is at least as old as the
\* threshold.
C28_StaleUpdateTime ==
    [][\A j \in DOMAIN jan :
         CallStep("is_stale_update_time") =>
            caller'.res =
              << /\ UpdatedTimeArg # NoTs
                 /\ ThresholdInEffect(j) > 0
                 /\ now - UpdatedTimeArg[1] >= ThresholdInEffect(j) >>
      ]_vars

\* ---------------------------------------------------------------- C29
\* how often v occurs in the sequence s
Count(s, v) == Cardinality({i \in DOMAIN s : s[i] = v})

\* how often key k is held in the processing-queue entries, how often it is
\* on the work queues, and how many janitors have removed it from an entry
\* and not yet pushed it
Held(k) == Count(lists[EntryOf(Pod)], k) + Count(lists[EntryOf(ZipPod)], k)
Queued(k) == Count(lists[WorkQueueOf(Pod)], k) + Count(lists[WorkQueueOf(ZipPod)], k)
Removing(k) == Cardinality({j \in DOMAIN jan : jan[j].pc = "push" /\ jan[j].ck.key = k})

\* the keys janitor j has counted as cleaned, in the sweep under way and in
\* the sweeps before it
Counted(j) ==
    jan[j].total_repairs + (IF jan[j].pc = "idle" THEN 0 ELSE jan[j].cleaned)

\* C29: two janitors sweeping the same store, their store commands
\* interleaved in any order, with every key held once in an entry at the
\* start.  No key is ever in two places: held in an entry, removed and about
\* to be pushed by one janitor, or on a work queue, so it is pushed at most
\* once; and the two janitors together have counted exactly the keys that
\* are gone from the entries for good, so no key is counted twice.
C29_AtMostOneRemovalSucceeds ==
    /\ \A k \in Keys : Held(k) + Removing(k) + Queued(k) <= 1
    /\ Counted(1) + Counted(2)
         = Cardinality({k \in Keys : Held(k) = 0 /\ Removing(k) = 0})

\* both janitors read k1 and decided to repair it; the first one's LREM
\* removed it and it was pushed, the second one's LREM found nothing
C29_Witness ==
    /\ jan[1].ck.key = "k1" /\ jan[2].ck.key = "k1"
    /\ jan[1].ck.should_clean /\ jan[2].ck.should_clean
    /\ jan[1].ck.is_removed = 1 /\ jan[2].ck.is_removed = 0
    /\ jan[1].pc = "scan" /\ jan[2].pc = "scan"
    /\ jan[1].cleaned = 1 /\ jan[2].cleaned = 0
    /\ hashes["k1"].status = "started"
    /\ lists[WorkQueueOf(Pod)] = <<"k1">>

\* ---------------------------------------------------------------- C30
\* C30: no step pushes onto a work queue a key whose record says done or
\* failed at the moment of the push, whatever the consumers did between the
\* janitor's HMGET and its LREM and LPUSH.
C30_FinishedNeverPushed ==
    [][\A k \in Keys :
         Queued(k)' > Queued(k) => hashes[k].status \notin {"done", "failed"}
      ]_vars

\* ---------------------------------------------------------------- C31
\* janitor j has removed a key from an entry in order to repair it and has
\* not pushed it yet
Unpushed(j) == jan[j].pc = "push"

\* C31: no unfinished key is lost by a repair.  Whatever step ends the
\* janitor's work on a key it has removed from an entry in order to repair
\* it, that step puts the key on a work queue: also the step in which the
\* push raises, and the step in which the process is killed.
C31_RepairLosesNoKey ==
    [][\A j \in DOMAIN jan :
         Unpushed(j) /\ ~Unpushed(j)'
            => Queued(jan[j].ck.key)' = Queued(jan[j].ck.key) + 1
      ]_vars

\* ---------------------------------------------------------------- C32
\* should_clean_key was called on key k and answered true
RepairDecision(k) ==
    /\ CallStep("should_clean_key")
    /\ caller'.arg = <<k>>
    /\ caller'.raised = None
    /\ caller'.res = TRUE

\* the time of the snapshot the janitor holds after the call
SnapshotTime(j) == jan'[j].pods_updated_at[1]

UnstampedOrphan(k, w) ==
    /\ k \in Range(lists[EntryOf(w)])
    /\ Unstamped(hashes[k])
    /\ hashes[k].status \notin {"done", "failed"}
    /\ cluster[w] # "Running"

\* C33: a record without updated_at is not repaired for its age: clean_key
\* leaves its key where it is as long as the snapshot shows the entry's
\* worker Running, however late it is.  And it is repaired through the
\* liveness of the worker: with the sweeps going on, a key of such a record
\* in the entry of a worker that is missing or not Running is in the end
\* removed from the entry and pushed onto the work queue, unless the worker
\* comes back or the record gets an updated_at first.
C33_UnstampedRepairedByLiveness ==
    /\ [][\A j \in DOMAIN jan : \A w \in PodNames :
            ( /\ CleanKeyStep(j)
              /\ Entry(j) = EntryOf(w)
              /\ Unstamped(hashes[NextKey(j)])
              /\ RunningAfter(j, w) )
            => lists' = lists]_vars
    /\ \A k \in Keys : \A w \in PodNames :
          UnstampedOrphan(k, w)
             ~> ( \/ Requeued(k, w)
                  \/ cluster[w] = "Running"
                  \/ ~Unstamped(hashes[k]) )

\* the work queue a consumer of the i-th processing queue of `queue` takes
\* its keys from, by the naming of the queues: <q> for processing-<q> and
\* <q>-zip for processing-<q>-zip
WorkQueueAt(queue, i) == WorkQueuesOf(Split(Lower(queue), QUEUE_DELIMITER))[i]

\* C34: for every configured queue name q and every worker identity w, a
\* repair called with the entry processing-<q>:<w> (or processing-<q>-zip:<w>)
\* that removes the key pushes it onto <q> (or <q>-zip), also when q holds a
\* colon or `processing-`, and the worker identity derived from the entry
\* name is w.
C34_DerivedNames ==
    [][\A j \in DOMAIN jan :
          (CallStep("repair_redis_key") /\ caller'.res # <<0>>)
              => LET queue == caller'.arg[1]
                     i == caller'.arg[2]
                     w == caller'.arg[3]
                     key == caller'.arg[4]
                 IN  /\ Count(lists'[WorkQueueAt(queue, i)], key)
                            = Count(lists[WorkQueueAt(queue, i)], key) + 1
                     /\ PodNameOf(jan'[j].cleaning_queue) = w]_vars

\* a step of a sweep: the janitor j has moved on in clean()
SweepStep(j) == jan'[j] # jan[j]

\* the latest clean_key of janitor j read a usable, unfinished record,
\* decided to clean, removed the key and pushed it, and the record is what
\* it was when it was read
RepairedUntouched(j) ==
    /\ jan[j].pc \in {"scan", "keys"}
    /\ jan[j].is_key_cleaned
    /\ jan[j].ck.should_clean
    /\ jan[j].ck.hvals.status = "started"
    /\ jan[j].ck.is_removed # 0
    /\ hashes[jan[j].ck.key] = jan[j].ck.hvals
    /\ \E w \in PodNames : jan[j].ck.key \in Range(lists[WorkQueueOf(w)])

\* C35: a sweep never writes a job record.  Every step of clean() (the
\* start, a scan, an LRANGE, a clean_key with any of its outcomes, the end)
\* leaves every record's status, updated_at and updated_by as they were, and
\* also the cluster; what a sweep changes in the store is list membership
\* only.
C35_SweepWritesNoRecord ==
    [][\A j \in DOMAIN jan :
          SweepStep(j) => /\ \A k \in Keys : hashes'[k] = hashes[k]
                          /\ cluster' = cluster]_vars

C35_Witness == \E j \in DOMAIN jan : RepairedUntouched(j)

====
